---------------------------- MODULE Spec2Model ----------------------------
(***************************************************************************)
(* BAUKLANK audio stretch: the browser clients.                            *)
(*                                                                         *)
(*   SpecWs    the single-engine client's WebSocket control client         *)
(*             (src/app/app.mjs, window.wsControlClient)                   *)
(*   SpecCfg   the single-engine client's debounced configChanged          *)
(*             (src/app/app.mjs, configChanged / handleArrayBuffer)        *)
(*   SpecMulti the multi-engine client's per-slot engine state             *)
(*             (src/app/multi/app.mjs, applyIncomingSet / controlsChanged  *)
(*             / configChanged / handleArrayBuffer)                        *)
(*                                                                         *)
(* Numbers are fixed point in thousandths: 1.0 is 1000, so seconds are     *)
(* milliseconds and a volume of 0.10 is 100.                               *)
(***************************************************************************)
EXTENDS Integers, Sequences, FiniteSets, TLC

VARIABLES
    \* ---- single-engine client, wsControlClient (src/app/app.mjs:367-521)
    sockets,            \* readyState of every WebSocket the client created
    ws,                 \* the client's `ws`: 0 is null, else an index of sockets
    reconnectAttempt,   \* `reconnectAttempt`
    reconnectTimer,     \* `reconnectTimer`: 0 is null, else the pending delay (ms)
    status,             \* `status`
    failures,           \* history: closes since the last successful open
    lastSched,          \* history: the last delay scheduled and the failure it followed
    waited              \* ms gone by since the pending reconnect timer was set

backoffVars == <<waited>>
wsVars == <<sockets, ws, reconnectAttempt, reconnectTimer, status, failures, lastSched,
            backoffVars>>

VARIABLES
    \* ---- single-engine client, engine and config (src/app/app.mjs:70-208, 559-594)
    stretch,            \* `stretch`: 0 is null, else the id of the instance
    configValues,       \* `configValues`
    configTimeout,      \* `configTimeout`: -1 is null, else the ms left until it is due
    loads,              \* position of every handleArrayBuffer call started
    lastConfigure,      \* the arguments of the last stretch.configure call
    burst,              \* history: a burst of config changes and the calls that carried it
    controlValues,      \* `controlValues`: active, rate and the loop bounds
    audioDuration,      \* `audioDuration`
    lastSchedule        \* the arguments of the last stretch.schedule call

schedVars == <<controlValues, audioDuration, lastSchedule>>
cfgVars == <<stretch, configValues, configTimeout, loads, lastConfigure, burst, schedVars>>

VARIABLES
    \* ---- multi-engine client (src/app/multi/app.mjs)
    requestedSlots,     \* `requestedSlots`: the slots this page runs, in order
    engines,            \* `engines`: slot -> engine (stretch, audioDuration, values)
    mLoads,             \* every audio load started: slot, kind, position, duration
    calls,              \* what the last handler asked of the audio graph and engine
    lastOp,             \* history: the last handler that ran, with its arguments
    opsDone,            \* history: handlers of user and hub input run so far
    mBurst              \* history: a burst of config sets of one slot within 50 ms

multiVars == <<requestedSlots, engines, mLoads, calls, lastOp, opsDone, mBurst>>

VARIABLES
    \* ---- multi-engine client: connectWs (src/app/multi/app.mjs)
    mSockets,           \* readyState of every WebSocket created, in creation order
    mWs,                \* `ws`: the socket created last
    mTimers,            \* pending setTimeout(connectWs, 1000) timers
    mWsStatus,          \* text of the connection badge
    wsRateTimer,        \* the msg/s interval is running
    mFailures,          \* history: closes since the last open
    mLastSched          \* history: [k, delay] of the last reconnect scheduled

multiWsVars == <<mSockets, mWs, mTimers, mWsStatus, wsRateTimer, mFailures, mLastSched>>

VARIABLES
    \* ---- hub: serial prober, controller registry, channel health, router
    \* (server-multi.py, specified in spec.md 4.1-4.3 and README.md)
    plugged,            \* port -> what is plugged in: "none", a controller, another device
    openPorts,          \* the serial ports the hub holds open
    probing,            \* ports a scan has probed and whose reply it awaits
    registry,           \* port -> the controller attached there, or NoController
    hubNow,             \* the hub's clock, in resend intervals of a controller
    lastUpdateTs,       \* slot -> time of the last accepted set, -1 before the first
    hubLast             \* history: what the hub did last, with the message it produced

hubVars == <<plugged, openPorts, probing, registry, hubNow, lastUpdateTs, hubLast>>

VARIABLES
    \* ---- hub: fan-out server (server-multi.py, specified in spec.md 4.4)
    produced,           \* the messages the router produced, in production order
    toSend,             \* produced messages the server has not broadcast yet
    conns               \* every client connection accepted so far

fanVars == <<produced, toSend, conns>>

VARIABLES
    \* ---- embedded controller (src/unnamed/part_005)
    fwBooted,           \* setup() has run
    fwRx,               \* bytes received on the serial line and not read yet
    lineBuffer,         \* `lineBuffer`
    fwTx,               \* the lines written to the serial line
    fwLines             \* history: every complete input line and the hellos it produced

fwVars == <<fwBooted, fwRx, lineBuffer, fwTx, fwLines>>

VARIABLES
    \* ---- embedded controller: rate sweep and display (src/unnamed/part_005)
    ctl,                \* the globals of the sketch the ticks of loop() work on
    ctlClock,           \* millis() at the last pass of loop(), the time since boot
    ctlHist,            \* history: when the volume and a rate text were written
    rateTx              \* history: the values of the last two rate lines written

ctlVars == <<ctl, ctlClock, ctlHist, rateTx>>

\* the far side of the connection: hub and controller
farVars == <<hubVars, fanVars, fwVars, ctlVars>>
clientVars == <<wsVars, cfgVars, multiVars, multiWsVars>>

vars == <<wsVars, cfgVars, multiVars, multiWsVars, farVars>>

-----------------------------------------------------------------------------
(* Bounds of the model.                                                    *)

\* sockets the single-engine client may create in one behaviour
MaxSockets == 8
\* handleArrayBuffer calls of the single-engine client in one behaviour
MaxLoads == 2
\* config changes followed within one burst
MaxBurst == 2
\* handlers of user and hub input the multi-engine client runs in one behaviour
MaxOps == 2
\* audio loads of the multi-engine client in one behaviour, the default one included
MaxEngineLoads == 2
\* sockets the multi-engine client may create in one behaviour
MaxMultiSockets == 8
\* sockets each client may create while both run side by side
MaxRecoverSockets == 3
\* resend intervals the hub's clock runs
MaxHubTime == 4
\* pieces of input the controller receives
MaxFwInput == 5
\* messages the router produces, client connections accepted, and the
\* messages an outbound buffer holds
MaxMsgs == 3
MaxConns == 2
MaxBuffer == 2
\* passes of the controller's loop() followed
MaxCtlLoops == 6

-----------------------------------------------------------------------------
(* Small utilities.                                                        *)

Min(a, b) == IF a <= b THEN a ELSE b
Max(a, b) == IF a >= b THEN a ELSE b

\* a clamp that forgets the lower bound
clampUpperOnly(n, lo, hi) == Min(hi, n)

\* clamp(n, min, max) == Math.max(min, Math.min(max, n))
clamp(n, lo, hi) == Max(lo, Min(hi, n))

RECURSIVE Pow2(_)
Pow2(n) == IF n <= 0 THEN 1 ELSE 2 * Pow2(n - 1)

-----------------------------------------------------------------------------
(* JavaScript values, as far as the handlers tell them apart.              *)
(* A value is [t, n, s]: t is its typeof; a finite number has s = "" and   *)
(* n its value in thousandths; NaN and the infinities are numbers with s   *)
(* naming them.                                                            *)

Num(n) == [t |-> "number", n |-> n, s |-> ""]
NaN == [t |-> "number", n |-> 0, s |-> "NaN"]
PosInf == [t |-> "number", n |-> 0, s |-> "Infinity"]
NegInf == [t |-> "number", n |-> 0, s |-> "-Infinity"]
Str(x) == [t |-> "string", n |-> 0, s |-> x]
Bool(b) == [t |-> "boolean", n |-> IF b THEN 1 ELSE 0, s |-> ""]
Undefined == [t |-> "undefined", n |-> 0, s |-> ""]
Null == [t |-> "object", n |-> 0, s |-> "null"]

\* Number.isFinite(v)
IsFinite(v) == v.t = "number" /\ v.s = ""

\* Number(v), for the strings the model sends
Number(v) ==
    CASE v.t = "number" -> v
      [] v.t = "boolean" -> Num(v.n * 1000)
      [] v.t = "undefined" -> NaN
      [] v.t = "object" -> Num(0)
      [] v.t = "string" ->
            CASE v.s = "" -> Num(0)
              [] v.s = "30" -> Num(30000)
              [] v.s = "Infinity" -> PosInf
              [] OTHER -> NaN

\* !!v
Truthy(v) ==
    CASE v.t = "number" -> v.s \in {"Infinity", "-Infinity"} \/ (v.s = "" /\ v.n # 0)
      [] v.t = "boolean" -> v.n = 1
      [] v.t = "string" -> v.s # ""
      [] OTHER -> FALSE

toFiniteNumberOrZero(value, fallback) ==
    LET n == IF value.t = "number" THEN value ELSE Number(value)
    IN  IF IsFinite(n) THEN n ELSE Num(0)

\* function toFiniteNumber(value, fallback)
toFiniteNumber(value, fallback) ==
    LET n == IF value.t = "number" THEN value ELSE Number(value)
    IN  IF IsFinite(n) THEN n ELSE fallback

-----------------------------------------------------------------------------
(* Single-engine client: wsControlClient.                                  *)

BackoffBaseMs == 250
BackoffCapMs == 8000

\* const delayMs = Math.min(8000, 250 * (2 ** (reconnectAttempt - 1)))
\* (2 ** n is a double in the code and cannot overflow; the exponent is capped
\* here at 6, from where 250 * 2^n stays above the 8000 cap)
DelayMs(attempt) == Min(BackoffCapMs, BackoffBaseMs * Pow2(Min(attempt - 1, 6)))

Live(s) == sockets[s] \in {"CONNECTING", "OPEN"}

\* clearReconnectTimer()
clearReconnectTimer(t) == 0

\* connect(): the guard `ws && (ws.readyState === OPEN || ws.readyState === CONNECTING)`
ConnectReturnsEarly == ws # 0 /\ sockets[ws] \in {"OPEN", "CONNECTING"}

\* connect(), after reconnectTimer has been given the value timerNow by the caller
connect(timerNow) ==
    IF ConnectReturnsEarly
    THEN /\ reconnectTimer' = timerNow
         /\ UNCHANGED <<sockets, ws, status>>
    ELSE /\ reconnectTimer' = clearReconnectTimer(timerNow)
         /\ status' = "connecting"
         /\ sockets' = Append(sockets, "CONNECTING")
         /\ ws' = Len(sockets) + 1

CanCreateSocket == ConnectReturnsEarly \/ Len(sockets) < MaxSockets

\* controlsChanged() calls window.wsControlClient.connect() on every control
\* change: UI input, reset, play/stop, an incoming set, a finished load
ControlsChangedConnect ==
    /\ CanCreateSocket
    /\ connect(reconnectTimer)
    /\ waited' = IF ConnectReturnsEarly THEN waited ELSE 0
    /\ UNCHANGED <<reconnectAttempt, failures, lastSched, cfgVars, multiVars, multiWsVars, farVars>>

\* the reconnect timer fires, its delay having run out:
\* reconnectTimer = null; connect()
ReconnectTimerFires ==
    /\ reconnectTimer # 0
    /\ waited >= reconnectTimer
    /\ CanCreateSocket
    /\ connect(0)
    /\ waited' = 0
    /\ UNCHANGED <<reconnectAttempt, failures, lastSched, cfgVars, multiVars, multiWsVars, farVars>>

\* ws.onopen
SocketOpens(s) ==
    /\ sockets[s] = "CONNECTING"
    /\ sockets' = [sockets EXCEPT ![s] = "OPEN"]
    /\ reconnectAttempt' = 0
    /\ status' = "connected"
    /\ failures' = 0
    /\ UNCHANGED <<ws, reconnectTimer, lastSched, backoffVars, cfgVars, multiVars, multiWsVars, farVars>>

\* the server starts the closing handshake: readyState becomes CLOSING, no
\* event is delivered until the connection is closed
SocketStartsClosing(s) ==
    /\ sockets[s] = "OPEN"
    /\ sockets' = [sockets EXCEPT ![s] = "CLOSING"]
    /\ UNCHANGED <<ws, reconnectAttempt, reconnectTimer, status, failures, lastSched, backoffVars, cfgVars, multiVars, multiWsVars, farVars>>

\* an onclose that forgets scheduleReconnect()
SocketClosesNoReconnect(s) ==
    /\ sockets[s] \in {"CONNECTING", "OPEN", "CLOSING"}
    /\ sockets' = [sockets EXCEPT ![s] = "CLOSED"]
    /\ ws' = 0
    /\ failures' = failures + 1
    /\ status' = "disconnected"
    /\ UNCHANGED <<reconnectAttempt, reconnectTimer, lastSched, backoffVars, cfgVars, multiVars, multiWsVars, farVars>>

\* ws.onclose: setStatus('disconnected'); ws = null; scheduleReconnect()
SocketCloses(s) ==
    /\ sockets[s] \in {"CONNECTING", "OPEN", "CLOSING"}
    /\ sockets' = [sockets EXCEPT ![s] = "CLOSED"]
    /\ ws' = 0
    /\ failures' = failures + 1
    /\ UNCHANGED <<cfgVars, multiVars, multiWsVars, farVars>>
    /\ IF reconnectTimer # 0
       THEN \* scheduleReconnect: if (reconnectTimer) return;
            /\ status' = "disconnected"
            /\ UNCHANGED <<reconnectAttempt, reconnectTimer, lastSched, waited>>
       ELSE /\ reconnectAttempt' = reconnectAttempt + 1
            /\ waited' = 0
            /\ reconnectTimer' = DelayMs(reconnectAttempt + 1)
            /\ status' = "reconnecting"
            /\ lastSched' = [k |-> failures + 1, delay |-> DelayMs(reconnectAttempt + 1)]

\* time goes by while a reconnect is pending, until the timer is due
WsTimePasses ==
    /\ reconnectTimer # 0
    /\ waited < reconnectTimer
    /\ waited' = reconnectTimer
    /\ UNCHANGED <<sockets, ws, reconnectAttempt, reconnectTimer, status, failures,
                   lastSched, cfgVars, multiVars, multiWsVars, farVars>>

WsInit ==
    \* the state after the module body has run: the initial paint's
    \* controlsChanged() created the client and called connect()
    /\ sockets = <<"CONNECTING">>
    /\ ws = 1
    /\ reconnectAttempt = 0
    /\ reconnectTimer = 0
    /\ status = "connecting"
    /\ failures = 0
    /\ lastSched = [k |-> 0, delay |-> 0]
    /\ waited = 0

WsNext ==
    \/ ControlsChangedConnect
    \/ ReconnectTimerFires
    \/ WsTimePasses
    \/ \E s \in 1..Len(sockets) : SocketOpens(s)
    \/ \E s \in 1..Len(sockets) : SocketStartsClosing(s)
    \/ \E s \in 1..Len(sockets) : SocketCloses(s)

-----------------------------------------------------------------------------
(* Single-engine client: engine instance, config and its debounce timer.   *)
(* The WebSocket client and the config state share no variable: incoming   *)
(* sets are taken here as arriving at any time.                            *)

ConfigDebounceMs == 50

configValuesInitial ==
    [blockMs |-> Num(60000), overlap |-> Num(1500), splitComputation |-> Bool(TRUE)]

NoArgs == [blockMs |-> 0, overlap |-> 0, splitComputation |-> FALSE]
NoBurst ==
    [on |-> FALSE, age |-> 0, n |-> 0, calls |-> 0, dirty |-> FALSE, armed |-> FALSE,
     loaded |-> FALSE]

\* the arguments the timer's callback passes to stretch.configure
ConfigureArgsStale(cv) ==
    [blockMs |-> clamp(toFiniteNumber(configValuesInitial.blockMs, Num(60000)).n, 10000, 500000),
     overlap |-> clamp(toFiniteNumber(configValuesInitial.overlap, Num(1500)).n, 1000, 8000),
     splitComputation |-> Truthy(configValuesInitial.splitComputation)]

ConfigureArgs(cv) ==
    [blockMs |-> clamp(toFiniteNumber(cv.blockMs, Num(60000)).n, 10000, 500000),
     overlap |-> clamp(toFiniteNumber(cv.overlap, Num(1500)).n, 1000, 8000),
     splitComputation |-> Truthy(cv.splitComputation)]

\* configChanged(): if (configTimeout == null) configTimeout = setTimeout(..., 50)
configChanged(t) == IF t = -1 THEN ConfigDebounceMs ELSE t

\* values a number input of the controls can deliver (parseFloat, finite):
\* blockMs 5 is below the range, overlap 9 above it
UiNumbers(key) == IF key = "blockMs" THEN {Num(5000)} ELSE {Num(9000)}
\* values a set message can carry
IncomingValues(key) == IF key = "blockMs" THEN {Str("abc")} ELSE {Num(0)}

\* history: a change either joins the burst being followed (it falls within
\* 50 ms of the burst's first change) or, outside one, may start a new one
BurstAfterChange(track) ==
    IF burst.on /\ burst.age < ConfigDebounceMs
    THEN [burst EXCEPT !.n = @ + 1, !.dirty = TRUE]
    ELSE IF track
         THEN [on |-> TRUE, age |-> 0, n |-> 1, calls |-> 0, dirty |-> TRUE,
               armed |-> configTimeout = -1, loaded |-> stretch # 0]
         ELSE NoBurst

BurstHasRoom == ~(burst.on /\ burst.age < ConfigDebounceMs) \/ burst.n < MaxBurst

\* the decoded length of the audio, audioBuffer.duration
DecodedDuration == 8000

\* controlValuesInitial, nothing being stored in localStorage yet
controlValuesInitial == [active |-> FALSE, rate |-> 1, loopStart |-> 1000, loopEnd |-> 1000]
\* localStorage.getItem('active') !== null, when the page was opened
hadActiveStored == FALSE

NoSchedule ==
    [inst |-> 0, by |-> "", duration |-> 0,
     args |-> [active |-> FALSE, rate |-> 0, loopStart |-> 0, loopEnd |-> 0,
               input |-> -1, outputTime |-> 0]]

\* controlsChanged(scheduleAhead), `if (stretch) { ... stretch.schedule({...}) }`:
\* the call made, with rate in units of 0.00001 and outputTime as the lead
\* over audioContext.currentTime in ms; the last call stays when none is made
scheduleOnControlsChanged(cv, scheduleAhead) ==
    IF stretch = 0 THEN lastSchedule
    ELSE [inst |-> stretch, by |-> "controlsChanged", duration |-> audioDuration,
          args |-> [active |-> cv.active,
                    rate |-> clamp(100 * toFiniteNumber(Num(cv.rate), Num(1)).n, 1, 400000),
                    loopStart |-> clamp(toFiniteNumber(Num(cv.loopStart), Num(0)).n,
                                        0, audioDuration),
                    loopEnd |-> clamp(toFiniteNumber(Num(cv.loopEnd), Num(audioDuration)).n,
                                      0, audioDuration),
                    input |-> -1,
                    outputTime |-> scheduleAhead]]

\* what the loop inputs of the controls deliver and what a set message carries
UiLoopValues(key) == IF key = "loopStart" THEN {5000} ELSE {2000}
IncomingLoopValues(key) ==
    IF key = "loopStart" THEN {Num(-1000), Num(3000), Str("abc")} ELSE {Num(99000), Num(1000)}

\* input.oninput / input.onchange of a control input (parseFloat, finite)
UiControlInput(key, value) ==
    /\ controlValues' = [controlValues EXCEPT ![key] = value]
    /\ lastSchedule' = scheduleOnControlsChanged(controlValues', 0)
    /\ UNCHANGED <<stretch, configValues, configTimeout, loads, lastConfigure, burst,
                   audioDuration, wsVars, multiVars, multiWsVars, farVars>>

\* applyIncomingSet(key, value), key a number of controlValues
IncomingControlSet(key, value) ==
    /\ LET n == toFiniteNumber(value, NaN)
       IN  IF ~IsFinite(n) THEN UNCHANGED <<controlValues, lastSchedule>>
           ELSE /\ controlValues' = [controlValues EXCEPT ![key] = n.n]
                /\ lastSchedule' = scheduleOnControlsChanged(controlValues', 100)
    /\ UNCHANGED <<stretch, configValues, configTimeout, loads, lastConfigure, burst,
                   audioDuration, wsVars, multiVars, multiWsVars, farVars>>

\* $('#playstop').onclick
SinglePlayStop ==
    /\ controlValues' = [controlValues EXCEPT !.active = ~@]
    /\ lastSchedule' = scheduleOnControlsChanged(controlValues', 150)
    /\ UNCHANGED <<stretch, configValues, configTimeout, loads, lastConfigure, burst,
                   audioDuration, wsVars, multiVars, multiWsVars, farVars>>

\* updatePlaybackPosition(): the playback slider is moved to value (text)
updatePlaybackPosition(value, playbackHeld) ==
    /\ stretch # 0
    /\ lastSchedule' =
          [inst |-> stretch, by |-> "updatePlaybackPosition", duration |-> audioDuration,
           args |-> [active |-> TRUE,
                     rate |-> IF playbackHeld THEN 0
                              ELSE clamp(100 * toFiniteNumber(Num(controlValues.rate), Num(1)).n,
                                         1, 400000),
                     loopStart |-> clamp(toFiniteNumber(Num(controlValues.loopStart), Num(0)).n,
                                         0, audioDuration),
                     loopEnd |-> clamp(toFiniteNumber(Num(controlValues.loopEnd),
                                                      Num(audioDuration)).n,
                                       0, audioDuration),
                     input |-> clamp(toFiniteNumber(Number(value), Num(0)).n, 0, audioDuration),
                     outputTime |-> 10]]
    /\ UNCHANGED <<stretch, configValues, configTimeout, loads, lastConfigure, burst,
                   controlValues, audioDuration, wsVars, multiVars, multiWsVars, farVars>>

ConfigChange(key, v, track) ==
    /\ BurstHasRoom
    /\ configValues' = [configValues EXCEPT ![key] = v]
    /\ configTimeout' = configChanged(configTimeout)
    /\ burst' = BurstAfterChange(track)
    /\ UNCHANGED <<stretch, loads, lastConfigure, schedVars, wsVars, multiVars, multiWsVars, farVars>>

\* input.oninput / input.onchange of a config input
UiConfigInput ==
    \E track \in BOOLEAN :
        \/ \E key \in {"blockMs", "overlap"} : \E v \in UiNumbers(key) :
              ConfigChange(key, v, track)
        \/ \E b \in BOOLEAN : ConfigChange("splitComputation", Bool(b), track)

\* the reset button or a double click: the initial value
UiConfigReset ==
    \E track \in BOOLEAN, key \in {"blockMs", "splitComputation"} :
        ConfigChange(key, configValuesInitial[key], track)

\* applyIncomingSet(key, value), key in configValues: the value is stored as received
IncomingConfigSet ==
    \E track \in BOOLEAN, key \in {"blockMs", "splitComputation"} :
        \E v \in IncomingValues(key) : ConfigChange(key, v, track)

\* the setTimeout callback of configChanged
ConfigTimeoutFires ==
    /\ configTimeout = 0
    /\ configTimeout' = -1
    /\ IF stretch # 0
       THEN /\ lastConfigure' = [inst |-> stretch, args |-> ConfigureArgs(configValues)]
            /\ burst' = IF burst.on /\ burst.dirty
                        THEN [burst EXCEPT !.calls = @ + 1, !.dirty = FALSE]
                        ELSE burst
       ELSE UNCHANGED <<lastConfigure, burst>>
    /\ UNCHANGED <<stretch, configValues, loads, schedVars, wsVars, multiVars, multiWsVars, farVars>>

\* d ms pass; a due timer may fire late
TimePasses(d) ==
    /\ configTimeout > 0 \/ (burst.on /\ burst.age < ConfigDebounceMs)
    /\ configTimeout' = IF configTimeout = -1 THEN -1 ELSE Max(0, configTimeout - d)
    /\ burst' = IF burst.on THEN [burst EXCEPT !.age = Min(ConfigDebounceMs, @ + d)] ELSE burst
    /\ UNCHANGED <<stretch, configValues, loads, lastConfigure, schedVars, wsVars, multiVars, multiWsVars, farVars>>

\* handleArrayBuffer(arrayBuffer) is called: the default audio, a drop, an upload
LoadStarts ==
    /\ Len(loads) < MaxLoads
    /\ loads' = Append(loads, "decoding")
    /\ UNCHANGED <<stretch, configValues, configTimeout, lastConfigure, burst, schedVars, wsVars, multiVars, multiWsVars, farVars>>

\* decodeAudioData rejects
LoadDecodeFails(i) ==
    /\ loads[i] = "decoding"
    /\ loads' = [loads EXCEPT ![i] = "failed"]
    /\ UNCHANGED <<stretch, configValues, configTimeout, lastConfigure, burst, schedVars, wsVars, multiVars, multiWsVars, farVars>>

\* decodeAudioData resolves: audioDuration is set, the old instance is
\* stopped and disconnected, the new one is awaited
LoadDecoded(i) ==
    /\ loads[i] = "decoding"
    /\ loads' = [loads EXCEPT ![i] = "creating"]
    /\ audioDuration' = DecodedDuration
    /\ UNCHANGED <<stretch, configValues, configTimeout, lastConfigure, burst,
                   controlValues, lastSchedule, wsVars, multiVars, multiWsVars, farVars>>

\* stretch = await SignalsmithStretch(audioContext); addBuffers is awaited
LoadCreated(i) ==
    /\ loads[i] = "creating"
    /\ loads' = [loads EXCEPT ![i] = "adding"]
    /\ stretch' = i
    /\ UNCHANGED <<configValues, configTimeout, lastConfigure, burst, schedVars, wsVars, multiVars, multiWsVars, farVars>>

\* addBuffers resolves: loopEnd and active are set; configChanged(); controlsChanged()
LoadAdded(i) ==
    /\ loads[i] = "adding"
    /\ loads' = [loads EXCEPT ![i] = "done"]
    /\ configTimeout' = configChanged(configTimeout)
    /\ LET cv == [controlValues EXCEPT !.loopEnd = audioDuration,
                                       !.active = IF hadActiveStored THEN @ ELSE TRUE]
       IN  /\ controlValues' = cv
           /\ lastSchedule' = scheduleOnControlsChanged(cv, 0)
    /\ UNCHANGED <<stretch, configValues, lastConfigure, burst, audioDuration, wsVars, multiVars, multiWsVars, farVars>>

CfgInit ==
    \* the state after the module body has run: the initial paint's
    \* configChanged() armed the timer, no audio is loaded yet
    /\ stretch = 0
    /\ configValues = configValuesInitial
    /\ configTimeout = ConfigDebounceMs
    /\ loads = << >>
    /\ lastConfigure = [inst |-> 0, args |-> NoArgs]
    /\ burst = NoBurst
    /\ controlValues = controlValuesInitial
    /\ audioDuration = 1000
    /\ lastSchedule = NoSchedule

CfgNext ==
    \/ UiConfigInput
    \/ UiConfigReset
    \/ IncomingConfigSet
    \/ ConfigTimeoutFires
    \/ \E d \in {25} : TimePasses(d)
    \/ LoadStarts
    \/ \E i \in 1..Len(loads) : LoadDecodeFails(i)
    \/ \E i \in 1..Len(loads) : LoadDecoded(i)
    \/ \E i \in 1..Len(loads) : LoadCreated(i)
    \/ \E i \in 1..Len(loads) : LoadAdded(i)

\* the controls of the single-engine client and the loads that give them an
\* instance to schedule
SchedNext ==
    \/ \E key \in {"loopStart", "loopEnd"} : \E value \in UiLoopValues(key) :
          UiControlInput(key, value)
    \/ \E key \in {"loopStart", "loopEnd"} : \E value \in IncomingLoopValues(key) :
          IncomingControlSet(key, value)
    \/ SinglePlayStop
    \/ \E held \in BOOLEAN : updatePlaybackPosition(Str("30"), held)
    \/ LoadStarts
    \/ \E i \in 1..Len(loads) : LoadDecoded(i)
    \/ \E i \in 1..Len(loads) : LoadCreated(i)
    \/ \E i \in 1..Len(loads) : LoadAdded(i)

-----------------------------------------------------------------------------
(* Multi-engine client (src/app/multi/app.mjs).                            *)
(* Numbers are in thousandths: volume 1.0 is 1000, 24 semitones 24000,     *)
(* a duration of 8 s is 8000.  A control or config value never changes its *)
(* type: a number field is only assigned finite numbers, a boolean field   *)
(* only booleans, so the fields hold integers and booleans.                *)

defaultEngineId == requestedSlots[1]
Slots == {requestedSlots[i] : i \in 1..Len(requestedSlots)}

\* handlers followed in one behaviour: one fewer for every further engine
\* the page runs
OpsFollowed == MaxOps + 1 - Len(requestedSlots)

controlDefaults(engineId) ==
    [volume |-> 100,
     pan |-> IF engineId = "A" THEN -1000 ELSE IF engineId = "B" THEN 1000 ELSE 0,
     active |-> TRUE,
     rate |-> 1,
     semitones |-> 0,
     tonalityHz |-> 16000000,
     formantSemitones |-> 0,
     formantCompensation |-> FALSE,
     formantBaseHz |-> 200000,
     loopStart |-> 1000,
     loopEnd |-> 1000]

configDefaults == [blockMs |-> 200000, overlap |-> 1000, splitComputation |-> TRUE]

\* added: the properties set on controlValues beyond those of controlDefaults,
\* as [key, value]; currentFileName is what wireEngineUi's first
\* setLoadedFilename leaves; processing is `engine._processing`
createEngine(engineId) ==
    [stretch |-> 0,
     audioDuration |-> 1000,
     controlValues |-> controlDefaults(engineId),
     configValues |-> configDefaults,
     added |-> {},
     currentFileName |-> "no audio loaded",
     processing |-> FALSE]

ControlKeys == DOMAIN controlDefaults("A")
\* names every object inherits from Object.prototype: `key in engine.controlValues`
\* holds for them too
InheritedKeys == {"constructor", "toString", "__proto__"}
\* `key in engine.controlValues`
InControlValues(e, key) == key \in ControlKeys \cup InheritedKeys
\* engine.controlValues[key] of a key that is not one of controlDefaults: the
\* property set earlier, else what Object.prototype has (a function, an object)
Inherited == [t |-> "function", n |-> 0, s |-> ""]
AddedValue(e, key) ==
    IF \E a \in e.added : a.key = key
    THEN (CHOOSE a \in e.added : a.key = key).value
    ELSE Inherited
\* engine.controlValues[key] = value for such a key: assigning a primitive to
\* __proto__ changes nothing, any other name becomes a property of the object
SetAdded(e, key, value) ==
    IF key = "__proto__" THEN e
    ELSE [e EXCEPT !.added = {a \in @ : a.key # key} \cup {[key |-> key, value |-> value]}]
ConfigKeys == DOMAIN configDefaults
\* typeof current === 'boolean'
BooleanKeys == {"active", "formantCompensation", "splitComputation"}

RoundHalfAwayFromZero(x) ==
    IF x >= 0 THEN ((x + 500) \div 1000) * 1000 ELSE -(((500 - x) \div 1000) * 1000)

\* Math.round(x) = floor(x + 0.5)
Round(x) == ((x + 500) \div 1000) * 1000

\* controlsChanged reads lastUiPaintMs after the schedule call; no binding of
\* that name is declared in the module (line 207 is a property of the engine)
lastUiPaintMsDeclared == FALSE

setVolumeFromPercentNoClamp(e, value, fallback) ==
    [e EXCEPT !.controlValues.volume = toFiniteNumber(value, fallback).n \div 100]

setVolumeFromPercent(e, value, fallback) ==
    [e EXCEPT !.controlValues.volume =
        clamp(toFiniteNumber(value, fallback).n, 0, 100000) \div 100]

\* returns the engine, or the engine unchanged when the value is rejected
setVolumeNormalized(e, value) ==
    LET n == toFiniteNumber(value, NaN)
        normalized == IF n.n <= 1000 /\ n.n >= 0 THEN n.n ELSE n.n \div 100
    IN  IF ~IsFinite(n) THEN e
        ELSE [e EXCEPT !.controlValues.volume = clamp(normalized, 0, 1000)]

\* the loop bounds controlsChanged passes on: clamped, then ordered
LoopBoundsNoSwap(e) ==
    [loopStart |-> clamp(e.controlValues.loopStart, 0, e.audioDuration),
     loopEnd |-> clamp(e.controlValues.loopEnd, 0, e.audioDuration)]

LoopBounds(e) ==
    LET loopStart == clamp(toFiniteNumber(Num(e.controlValues.loopStart), Num(0)).n,
                           0, e.audioDuration)
        loopEnd == clamp(toFiniteNumber(Num(e.controlValues.loopEnd),
                                        Num(e.audioDuration)).n,
                         0, e.audioDuration)
    IN  IF loopStart > loopEnd
        THEN [loopStart |-> loopEnd, loopEnd |-> loopStart]
        ELSE [loopStart |-> loopStart, loopEnd |-> loopEnd]

\* the object handed to engine.stretch.schedule.  rate is in units of
\* 0.00001, its lower clamp; input is -1 when the key is left out;
\* outputTime is the lead over audioContext.currentTime in ms
ScheduleArgs(e, scheduleAhead, input) ==
    LET cv == e.controlValues
        lb == LoopBounds(e)
    IN  [active |-> cv.active,
         rate |-> clamp(100 * toFiniteNumber(Num(cv.rate), Num(1)).n, 1, 200000),
         semitones |-> clamp(toFiniteNumber(Num(cv.semitones), Num(0)).n, -48000, 48000),
         tonalityHz |-> clamp(toFiniteNumber(Num(cv.tonalityHz), Num(16000000)).n,
                              20000, 22050000),
         formantSemitones |->
             clamp(toFiniteNumber(Num(cv.formantSemitones), Num(0)).n, -48000, 48000),
         formantCompensation |-> cv.formantCompensation,
         formantBaseHz |-> clamp(toFiniteNumber(Num(cv.formantBaseHz), Num(200000)).n,
                                 20000, 2000000),
         loopStart |-> lb.loopStart,
         loopEnd |-> lb.loopEnd,
         input |-> IF IsFinite(input)
                   THEN clamp(toFiniteNumber(input, Num(0)).n, 0, e.audioDuration)
                   ELSE -1,
         outputTime |-> IF scheduleAhead THEN 100 ELSE 0]

\* the 30 ms ramps of the gain and of the two pan gains
Ramps(slot, e) ==
    LET targetVol == clamp(toFiniteNumber(Num(e.controlValues.volume), Num(1000)).n, 0, 1000)
        pan == clamp(toFiniteNumber(Num(e.controlValues.pan), Num(0)).n, -1000, 1000)
    IN  << [op |-> "ramp", slot |-> slot, inst |-> 0,
            args |-> [node |-> "gain", value |-> targetVol, rampMs |-> 30]],
           [op |-> "ramp", slot |-> slot, inst |-> 0,
            args |-> [node |-> "panLeftGain", value |-> (1000 - pan) \div 2, rampMs |-> 30]],
           [op |-> "ramp", slot |-> slot, inst |-> 0,
            args |-> [node |-> "panRightGain", value |-> (1000 + pan) \div 2, rampMs |-> 30]] >>

\* controlsChanged(engine, scheduleAhead, opts): the calls it makes
controlsChanged(slot, e, scheduleAhead, input) ==
    Ramps(slot, e) \o
    (IF e.stretch = 0 THEN << >>
     ELSE << [op |-> "schedule", slot |-> slot, inst |-> e.stretch,
              args |-> ScheduleArgs(e, scheduleAhead, input)] >>)

\* controlsChanged ends in a ReferenceError once it is past `if (!engine.stretch) return`
controlsChangedThrows(e) == e.stretch # 0 /\ ~lastUiPaintMsDeclared

\* configChanged(engine) of the multi-engine client: the calls it makes
engineConfigChanged(slot, e) ==
    IF e.stretch = 0 THEN << >>
    ELSE << [op |-> "configure", slot |-> slot, inst |-> e.stretch,
             args |-> [blockMs |-> clamp(toFiniteNumber(Num(e.configValues.blockMs),
                                                        Num(60000)).n, 10000, 500000),
                       overlap |-> clamp(toFiniteNumber(Num(e.configValues.overlap),
                                                        Num(1500)).n, 1000, 8000),
                       splitComputation |-> e.configValues.splitComputation]] >>

Unchanged(e) == [e |-> e, calls |-> << >>]
ThenControlsChanged(slot, e, scheduleAhead) ==
    [e |-> e, calls |-> controlsChanged(slot, e, scheduleAhead, Undefined)]
ThenConfigChanged(slot, e) == [e |-> e, calls |-> engineConfigChanged(slot, e)]

\* applyIncomingSet(engine, key, value): the engine afterwards and the calls made
applyIncomingSet(slot, e, key, value) ==
    LET n == toFiniteNumber(value, NaN)
    IN  CASE key = "" -> Unchanged(e)
          [] key = "volume" ->
                IF ~IsFinite(n) THEN Unchanged(e)
                ELSE ThenControlsChanged(slot, setVolumeNormalized(e, value), TRUE)
          [] key = "volumePercent" ->
                ThenControlsChanged(slot, setVolumeFromPercent(e, value, Num(100000)), TRUE)
          [] key = "pan" ->
                IF ~IsFinite(n) THEN Unchanged(e)
                ELSE LET pan == IF n.n >= 0 /\ n.n <= 100000 THEN (n.n \div 50) - 1000 ELSE n.n
                     IN  ThenControlsChanged(slot,
                            [e EXCEPT !.controlValues.pan = clamp(pan, -1000, 1000)], TRUE)
          [] key = "tone" ->
                IF ~IsFinite(n) THEN Unchanged(e)
                ELSE ThenControlsChanged(slot,
                        [e EXCEPT !.controlValues.semitones = Round(clamp(n.n, -24000, 24000))],
                        TRUE)
          [] key = "semitones" ->
                IF ~IsFinite(n) THEN Unchanged(e)
                ELSE ThenControlsChanged(slot,
                        [e EXCEPT !.controlValues.semitones = Round(clamp(n.n, -48000, 48000))],
                        TRUE)
          [] key \in ControlKeys \ {"volume", "pan", "semitones"} ->
                IF key \in BooleanKeys
                THEN ThenControlsChanged(slot,
                        [e EXCEPT !.controlValues[key] = Truthy(value)], TRUE)
                ELSE IF ~IsFinite(n) THEN Unchanged(e)
                ELSE ThenControlsChanged(slot, [e EXCEPT !.controlValues[key] = n.n], TRUE)
          [] InControlValues(e, key) /\ key \notin ControlKeys ->
                LET current == AddedValue(e, key)
                IN  IF current.t = "number"
                    THEN IF ~IsFinite(n) THEN Unchanged(e)
                         ELSE ThenControlsChanged(slot, SetAdded(e, key, n), TRUE)
                    ELSE IF current.t = "boolean"
                    THEN ThenControlsChanged(slot, SetAdded(e, key, Bool(Truthy(value))), TRUE)
                    ELSE ThenControlsChanged(slot, SetAdded(e, key, value), TRUE)
          [] key \in ConfigKeys ->
                IF key \in BooleanKeys
                THEN ThenConfigChanged(slot, [e EXCEPT !.configValues[key] = Truthy(value)])
                ELSE IF ~IsFinite(n) THEN Unchanged(e)
                ELSE ThenConfigChanged(slot, [e EXCEPT !.configValues[key] = n.n])
          [] OTHER -> Unchanged(e)

\* keys and values of the set messages the hub sends (JSON: numbers are
\* finite; text, booleans, null and a missing value also arrive)
IncomingKeys ==
    {"volume", "volumePercent", "pan", "tone", "semitones", "rate", "tonalityHz",
     "formantSemitones", "formantBaseHz", "loopStart", "loopEnd", "active",
     "formantCompensation", "blockMs", "overlap", "splitComputation", "foo", "",
     "constructor", "__proto__"}

SetValues(key) ==
    CASE key = "volume" -> {Num(50000), Str("abc")}
      [] key = "volumePercent" -> {Num(150000), Num(-20000), Num(50000), Str("abc")}
      [] key = "pan" -> {Num(75000), Undefined}
      [] key = "tone" -> {Num(30000), Num(-2500), Str("abc")}
      [] key = "semitones" -> {Num(60000), Str("Infinity")}
      [] key = "rate" -> {Num(5000), Undefined}
      [] key = "tonalityHz" -> {Num(10000), Str("abc")}
      [] key = "formantSemitones" -> {Num(99000), Str("abc")}
      [] key = "formantBaseHz" -> {Num(5000000), Str("Infinity")}
      [] key = "loopStart" -> {Num(5000), Num(-1000), Str("abc")}
      [] key = "loopEnd" -> {Num(2000), Num(99000), Str("abc")}
      [] key = "active" -> {Bool(FALSE), Str("abc")}
      [] key = "formantCompensation" -> {Bool(TRUE)}
      [] key = "blockMs" -> {Num(5000), Str("abc")}
      [] key = "overlap" -> {Num(9000), Undefined}
      [] key = "splitComputation" -> {Bool(FALSE)}
      [] OTHER -> {Num(1000)}

\* the engine tags of set messages: a slot of this page, another slot
MsgEngines == {Str("A"), Str("B")}
\* the keys of the messages sent with a tag
KeysFor(tag) == IF tag = Str("A") THEN IncomingKeys ELSE {"volumePercent", "blockMs"}

\* inputs of the controls panel and what they deliver
UiKeys == {"volumePercent", "rate", "loopStart", "loopEnd", "active", "blockMs"}
UiValues(key) ==
    CASE key = "volumePercent" -> {Num(50000), NaN}
      [] key = "rate" -> {Num(5000)}
      [] key = "loopStart" -> {Num(5000)}
      [] key = "loopEnd" -> {Num(2000)}
      [] key = "active" -> {Bool(FALSE)}
      [] OTHER -> {Num(5000)}
ResetKeys == {"volumePercent", "loopEnd", "blockMs"}
\* the decoded length of the default audio file and of the file uploaded
DurationOf(kind) == IF kind = "default" THEN 8000 ELSE 3000

\* tag: the engine a set message names (msg.engine), which need not be the
\* slot the handler acted on
NoOp == [name |-> "", slot |-> "", key |-> "", value |-> Undefined, tag |-> Undefined]
NoEngineBurst == [on |-> FALSE, slot |-> "", age |-> 0, n |-> 0, calls |-> 0]

CountCalls(cs, op) == Cardinality({i \in 1..Len(cs) : cs[i].op = op})

\* history: config sets of one slot that reach configChanged while an engine
\* instance exists, within 50 ms of the first of them, and their configure calls
EngineBurstAfterSet(slot, key, r) ==
    IF key \in ConfigKeys /\ Len(r.calls) > 0
    THEN IF mBurst.on /\ mBurst.slot = slot /\ mBurst.age < ConfigDebounceMs
         THEN [mBurst EXCEPT !.n = @ + 1, !.calls = @ + CountCalls(r.calls, "configure")]
         ELSE [on |-> TRUE, slot |-> slot, age |-> 0, n |-> 1,
               calls |-> CountCalls(r.calls, "configure")]
    ELSE mBurst

\* an onmessage that hands every set to the first slot of the page
WsSetMessageIgnoresTag(tag, key, value) ==
    /\ opsDone < OpsFollowed
    /\ LET engineId == defaultEngineId
           r == applyIncomingSet(engineId, engines[engineId], key, value)
       IN  /\ engines' = [engines EXCEPT ![engineId] = r.e]
           /\ calls' = r.calls
           /\ lastOp' = [name |-> "applyIncomingSet", slot |-> engineId, key |-> key,
                         value |-> value, tag |-> tag]
           /\ mBurst' = EngineBurstAfterSet(engineId, key, r)
    /\ opsDone' = opsDone + 1
    /\ UNCHANGED <<mLoads, requestedSlots, wsVars, cfgVars, multiWsVars, farVars>>

\* ws.onmessage, msg.type === 'set'
WsSetMessage(tag, key, value) ==
    /\ opsDone < OpsFollowed
    /\ LET engineId == IF tag.t = "string" /\ tag.s \in Slots THEN tag.s ELSE defaultEngineId
           r == applyIncomingSet(engineId, engines[engineId], key, value)
       IN  /\ engines' = [engines EXCEPT ![engineId] = r.e]
           /\ calls' = r.calls
           /\ lastOp' = [name |-> "applyIncomingSet", slot |-> engineId, key |-> key,
                         value |-> value, tag |-> tag]
           /\ mBurst' = EngineBurstAfterSet(engineId, key, r)
    /\ opsDone' = opsDone + 1
    /\ UNCHANGED <<mLoads, requestedSlots, wsVars, cfgVars, multiWsVars, farVars>>

\* input.oninput / input.onchange of a control of the slot's panel
UiInput(slot, key, value) ==
    /\ opsDone < OpsFollowed
    /\ LET e == engines[slot]
           isCheckbox == value.t = "boolean"
           stored == IF isCheckbox THEN Truthy(value) ELSE value.n
           r == IF ~isCheckbox /\ ~IsFinite(value) THEN Unchanged(e)
                ELSE IF key = "volumePercent"
                THEN ThenControlsChanged(slot, setVolumeFromPercent(e, value, Num(100000)), FALSE)
                ELSE IF key \in ControlKeys
                THEN ThenControlsChanged(slot, [e EXCEPT !.controlValues[key] = stored], FALSE)
                ELSE IF key \in ConfigKeys
                THEN ThenConfigChanged(slot, [e EXCEPT !.configValues[key] = stored])
                ELSE Unchanged(e)
       IN  /\ engines' = [engines EXCEPT ![slot] = r.e]
           /\ calls' = r.calls
    /\ lastOp' = [name |-> "oninput", slot |-> slot, key |-> key, value |-> value, tag |-> Undefined]
    /\ opsDone' = opsDone + 1
    /\ UNCHANGED <<mLoads, mBurst, requestedSlots, wsVars, cfgVars, multiWsVars, farVars>>

\* btn.onclick of a reset button
UiReset(slot, key) ==
    /\ opsDone < OpsFollowed
    /\ LET e == engines[slot]
           r == IF key = "volumePercent"
                THEN ThenControlsChanged(slot,
                        [e EXCEPT !.controlValues.volume = controlDefaults(slot).volume], FALSE)
                ELSE IF key \in ControlKeys
                THEN ThenControlsChanged(slot,
                        [e EXCEPT !.controlValues[key] = controlDefaults(slot)[key]], FALSE)
                ELSE IF key \in ConfigKeys
                THEN ThenConfigChanged(slot,
                        [e EXCEPT !.configValues[key] = configDefaults[key]])
                ELSE Unchanged(e)
       IN  /\ engines' = [engines EXCEPT ![slot] = r.e]
           /\ calls' = r.calls
    /\ lastOp' = [name |-> "reset", slot |-> slot, key |-> key, value |-> Undefined, tag |-> Undefined]
    /\ opsDone' = opsDone + 1
    /\ UNCHANGED <<mLoads, mBurst, requestedSlots, wsVars, cfgVars, multiWsVars, farVars>>

\* engine.ui.playstop.onclick
PlayStop(slot) ==
    /\ opsDone < OpsFollowed
    /\ LET e == [engines[slot] EXCEPT !.controlValues.active = ~@]
       IN  /\ engines' = [engines EXCEPT ![slot] = e]
           /\ calls' = controlsChanged(slot, e, FALSE, Undefined)
    /\ lastOp' = [name |-> "playstop", slot |-> slot, key |-> "active", value |-> Undefined, tag |-> Undefined]
    /\ opsDone' = opsDone + 1
    /\ UNCHANGED <<mLoads, mBurst, requestedSlots, wsVars, cfgVars, multiWsVars, farVars>>

\* engine.ui.playback.oninput: the slider's value is text
PlaybackSeek(slot, value) ==
    /\ opsDone < OpsFollowed
    /\ LET e == engines[slot]
           v == clamp(toFiniteNumber(value, Num(0)).n, 0, e.audioDuration)
       IN  calls' = IF e.stretch = 0 THEN << >> ELSE controlsChanged(slot, e, TRUE, Num(v))
    /\ lastOp' = [name |-> "seek", slot |-> slot, key |-> "input", value |-> value, tag |-> Undefined]
    /\ opsDone' = opsDone + 1
    /\ UNCHANGED <<engines, mLoads, mBurst, requestedSlots, wsVars, cfgVars, multiWsVars, farVars>>

\* DEFAULT_AUDIO_BY_ENGINE[engineId] and the name of the file the user picks
DefaultAudioName(slot) == "Black Hole Sun - Soundgarden.mp3"
UploadName == "upload.wav"

\* setLoadedFilename(engine, name)
setLoadedFilename(e, name) ==
    [e EXCEPT !.currentFileName = IF name # "" THEN name ELSE "no audio loaded"]
\* showProcessing(engine) / hideProcessing(engine)
showProcessing(e) == [e EXCEPT !.processing = TRUE]
hideProcessing(e) == [e EXCEPT !.processing = FALSE]

\* history: the slot as an upload finds it when it starts, kept when every
\* earlier load of the slot has come to its end: the instance the slot
\* references, whether that instance has been stopped, the file name
NotFollowed == [quiet |-> FALSE, stretch |-> 0, stopped |-> FALSE, file |-> ""]
SlotAsFound(slot) ==
    IF \A j \in 1..Len(mLoads) :
          mLoads[j].slot = slot => mLoads[j].pc \in {"failed", "done", "threw"}
    THEN [quiet |-> TRUE,
          stretch |-> engines[slot].stretch,
          stopped |-> IF engines[slot].stretch = 0 THEN FALSE
                      ELSE mLoads[engines[slot].stretch].stopped,
          file |-> engines[slot].currentFileName]
    ELSE NotFollowed

\* the instance created by load i is instance i; conn: it is connected to the
\* slot's gain, stopped: stop() has been called on it.  No instance is 0
StopInstance(ls, inst) ==
    IF inst = 0 THEN ls ELSE [ls EXCEPT ![inst].stopped = TRUE]
DisconnectInstance(ls, inst) ==
    IF inst = 0 THEN ls ELSE [ls EXCEPT ![inst].conn = FALSE]

LoadOp(i, step) ==
    [name |-> "load", slot |-> mLoads[i].slot, key |-> step, value |-> Undefined,
     tag |-> Undefined]

\* engine.ui.uploadFile.onchange: a file was chosen; the FileReader starts
UploadChosen(slot) ==
    /\ Len(mLoads) < MaxEngineLoads
    /\ mLoads' = Append(StopInstance(mLoads, engines[slot].stretch),
                         [slot |-> slot, kind |-> "upload", pc |-> "reading", dur |-> 0,
                          conn |-> FALSE, stopped |-> FALSE, was |-> SlotAsFound(slot)])
    /\ engines' = [engines EXCEPT ![slot] = setLoadedFilename(@, UploadName)]
    /\ calls' = IF engines[slot].stretch = 0 THEN << >>
                ELSE << [op |-> "stop", slot |-> slot, inst |-> engines[slot].stretch,
                         args |-> << >>] >>
    /\ lastOp' = [name |-> "load", slot |-> slot, key |-> "chosen", value |-> Undefined, tag |-> Undefined]
    /\ UNCHANGED <<opsDone, mBurst, requestedSlots, wsVars, cfgVars, multiWsVars, farVars>>

\* fetch / FileReader failed: handleArrayBuffer is never called
EngineReadFails(i) ==
    /\ mLoads[i].pc = "reading"
    /\ mLoads' = [mLoads EXCEPT ![i].pc = "failed"]
    /\ calls' = << >>
    /\ lastOp' = LoadOp(i, "readFailed")
    /\ UNCHANGED <<engines, opsDone, mBurst, requestedSlots, wsVars, cfgVars, multiWsVars, farVars>>

\* the bytes are there (the default audio's name is stored now, an upload's
\* was stored when it was chosen): handleArrayBuffer runs up to its first await
EngineRead(i) ==
    /\ mLoads[i].pc = "reading"
    /\ mLoads' = [mLoads EXCEPT ![i].pc = "decoding", ![i].dur = DurationOf(mLoads[i].kind)]
    /\ LET slot == mLoads[i].slot
           e == IF mLoads[i].kind = "default"
                THEN setLoadedFilename(engines[slot], DefaultAudioName(slot))
                ELSE engines[slot]
       IN  engines' = [engines EXCEPT ![slot] = showProcessing(e)]
    /\ calls' = << >>
    /\ lastOp' = LoadOp(i, "read")
    /\ UNCHANGED <<opsDone, mBurst, requestedSlots, wsVars, cfgVars, multiWsVars, farVars>>

\* decodeAudioData rejects: finally { hideProcessing(engine) }
EngineDecodeFails(i) ==
    /\ mLoads[i].pc = "decoding"
    /\ mLoads' = [mLoads EXCEPT ![i].pc = "failed"]
    /\ engines' = [engines EXCEPT ![mLoads[i].slot] = hideProcessing(@)]
    /\ calls' = << >>
    /\ lastOp' = LoadOp(i, "decodeFailed")
    /\ UNCHANGED <<opsDone, mBurst, requestedSlots, wsVars, cfgVars, multiWsVars, farVars>>

\* decodeAudioData resolves: up to `await SignalsmithStretch(audioContext)`
EngineDecoded(i) ==
    /\ mLoads[i].pc = "decoding"
    /\ LET slot == mLoads[i].slot
           e == engines[slot]
       IN  /\ engines' = [engines EXCEPT ![slot].audioDuration = mLoads[i].dur]
           /\ calls' = IF e.stretch = 0 THEN << >>
                       ELSE << [op |-> "stop", slot |-> slot, inst |-> e.stretch,
                                args |-> << >>],
                               [op |-> "disconnect", slot |-> slot, inst |-> e.stretch,
                                args |-> << >>] >>
    /\ mLoads' = [DisconnectInstance(StopInstance(mLoads, engines[mLoads[i].slot].stretch),
                                     engines[mLoads[i].slot].stretch)
                     EXCEPT ![i].pc = "creating"]
    /\ lastOp' = LoadOp(i, "decoded")
    /\ UNCHANGED <<opsDone, mBurst, requestedSlots, wsVars, cfgVars, multiWsVars, farVars>>

\* the new instance is there: up to `await engine.stretch.addBuffers(...)`
EngineCreated(i) ==
    /\ mLoads[i].pc = "creating"
    /\ LET slot == mLoads[i].slot
       IN  /\ engines' = [engines EXCEPT ![slot].stretch = i]
           /\ calls' = << [op |-> "connect", slot |-> slot, inst |-> i, args |-> << >>] >>
    /\ mLoads' = [mLoads EXCEPT ![i].pc = "adding", ![i].conn = TRUE]
    /\ lastOp' = LoadOp(i, "created")
    /\ UNCHANGED <<opsDone, mBurst, requestedSlots, wsVars, cfgVars, multiWsVars, farVars>>

\* for (const engine of engines.values()): the engine after slot in the
\* order the engines were put into the Map (A, then B), "" after the last
NextEngine(slot) == IF slot = "A" /\ "B" \in Slots THEN "B" ELSE ""

\* addBuffers resolves: the rest of handleArrayBuffer and of its caller
EngineBuffersAdded(i) ==
    /\ mLoads[i].pc = "adding"
    /\ LET slot == mLoads[i].slot
           e1 == hideProcessing(
                    [engines[slot] EXCEPT !.controlValues.loopEnd = engines[slot].audioDuration])
           first == engineConfigChanged(slot, e1) \o controlsChanged(slot, e1, FALSE, Undefined)
           threw == controlsChangedThrows(e1)
           e2 == IF ~threw /\ mLoads[i].kind = "upload"
                 THEN [e1 EXCEPT !.controlValues.active = TRUE]
                 ELSE e1
       IN  /\ engines' = [engines EXCEPT ![slot] = e2]
           /\ calls' = IF ~threw /\ mLoads[i].kind = "upload"
                       THEN first \o controlsChanged(slot, e2, FALSE, Undefined)
                       ELSE first
           /\ mLoads' =
                 LET ls == [mLoads EXCEPT ![i].pc = IF threw THEN "threw" ELSE "done"]
                 IN  \* loadDefaultAudioIntoAllEngines goes on to the next engine
                     IF ~threw /\ mLoads[i].kind = "default" /\ NextEngine(slot) # ""
                     THEN Append(ls, [slot |-> NextEngine(slot), kind |-> "default",
                                      pc |-> "reading", dur |-> 0,
                                      conn |-> FALSE, stopped |-> FALSE,
                                      was |-> NotFollowed])
                     ELSE ls
    /\ lastOp' = LoadOp(i, "added")
    /\ UNCHANGED <<opsDone, mBurst, requestedSlots, wsVars, cfgVars, multiWsVars, farVars>>

\* time passes while a burst of config sets is followed
EngineTimePasses(d) ==
    /\ mBurst.on /\ mBurst.age < ConfigDebounceMs
    /\ mBurst' = [mBurst EXCEPT !.age = Min(ConfigDebounceMs, @ + d)]
    /\ UNCHANGED <<engines, mLoads, calls, lastOp, opsDone, requestedSlots, wsVars, cfgVars, multiWsVars, farVars>>

\* the state after the module body has run: the engines are created and
\* wired (the initial paint finds no instance), the default audio of the
\* first slot is being fetched
MultiInitWith(slots) ==
    /\ requestedSlots = slots
    /\ engines = [slot \in Slots |-> createEngine(slot)]
    /\ mLoads = << [slot |-> requestedSlots[1], kind |-> "default", pc |-> "reading", dur |-> 0,
                     conn |-> FALSE, stopped |-> FALSE,
                     was |-> NotFollowed] >>
    /\ calls = << >>
    /\ lastOp = NoOp
    /\ opsDone = 0
    /\ mBurst = NoEngineBurst

\* getRequestedEngineSlots(): the kiosk opens the page with ?engines=1&slot=A
MultiInit == MultiInitWith(<<"A">>)

MultiNext ==
    \/ \E tag \in MsgEngines : \E key \in KeysFor(tag) : \E value \in SetValues(key) :
          WsSetMessage(tag, key, value)
    \/ \E slot \in Slots, key \in UiKeys : \E value \in UiValues(key) : UiInput(slot, key, value)
    \/ \E slot \in Slots, key \in ResetKeys : UiReset(slot, key)
    \/ \E slot \in Slots : PlayStop(slot)
    \/ \E slot \in Slots : PlaybackSeek(slot, Str("30"))
    \/ \E slot \in Slots : UploadChosen(slot)
    \/ \E i \in 1..Len(mLoads) : EngineReadFails(i)
    \/ \E i \in 1..Len(mLoads) : EngineRead(i)
    \/ \E i \in 1..Len(mLoads) : EngineDecodeFails(i)
    \/ \E i \in 1..Len(mLoads) : EngineDecoded(i)
    \/ \E i \in 1..Len(mLoads) : EngineCreated(i)
    \/ \E i \in 1..Len(mLoads) : EngineBuffersAdded(i)
    \/ \E d \in {25} : EngineTimePasses(d)

-----------------------------------------------------------------------------
(* Multi-engine client: connectWs.                                         *)

ReconnectDelayMs == 1000

MLive(s) == mSockets[s] \in {"CONNECTING", "OPEN"}

\* connectWs(), called at startup and by every reconnect timer
connectWs ==
    /\ mWsStatus' = "connecting"
    /\ mSockets' = Append(mSockets, "CONNECTING")
    /\ mWs' = Len(mSockets) + 1

\* a timer set by ws.onclose fires
MwsTimerFires ==
    /\ mTimers > 0
    /\ Len(mSockets) < MaxMultiSockets
    /\ mTimers' = mTimers - 1
    /\ connectWs
    /\ UNCHANGED <<wsRateTimer, mFailures, mLastSched, wsVars, cfgVars, multiVars, farVars>>

\* ws.onopen
MwsOpens(s) ==
    /\ mSockets[s] = "CONNECTING"
    /\ mSockets' = [mSockets EXCEPT ![s] = "OPEN"]
    /\ mWsStatus' = "connected"
    /\ wsRateTimer' = TRUE
    /\ mFailures' = 0
    /\ UNCHANGED <<mWs, mTimers, mLastSched, wsVars, cfgVars, multiVars, farVars>>

\* ws.onerror: an error event precedes the close of a failed connection
MwsError(s) ==
    /\ MLive(s)
    /\ mWsStatus # "error"
    /\ mWsStatus' = "error"
    /\ UNCHANGED <<mSockets, mWs, mTimers, wsRateTimer, mFailures, mLastSched,
                   wsVars, cfgVars, multiVars, farVars>>

\* the server starts the closing handshake
MwsStartsClosing(s) ==
    /\ mSockets[s] = "OPEN"
    /\ mSockets' = [mSockets EXCEPT ![s] = "CLOSING"]
    /\ UNCHANGED <<mWs, mTimers, mWsStatus, wsRateTimer, mFailures, mLastSched,
                   wsVars, cfgVars, multiVars, farVars>>

\* ws.onclose: setTimeout(connectWs, 1000)
MwsCloses(s) ==
    /\ mSockets[s] \in {"CONNECTING", "OPEN", "CLOSING"}
    /\ mSockets' = [mSockets EXCEPT ![s] = "CLOSED"]
    /\ mWsStatus' = "disconnected"
    /\ wsRateTimer' = FALSE
    /\ mTimers' = mTimers + 1
    /\ mFailures' = mFailures + 1
    /\ mLastSched' = [k |-> mFailures + 1, delay |-> ReconnectDelayMs]
    /\ UNCHANGED <<mWs, wsVars, cfgVars, multiVars, farVars>>

\* the state after the module body has run: connectWs() was called once
MultiWsInit ==
    /\ mSockets = <<"CONNECTING">>
    /\ mWs = 1
    /\ mTimers = 0
    /\ mWsStatus = "connecting"
    /\ wsRateTimer = FALSE
    /\ mFailures = 0
    /\ mLastSched = [k |-> 0, delay |-> 0]

MultiWsNext ==
    \/ MwsTimerFires
    \/ \E s \in 1..Len(mSockets) : MwsOpens(s)
    \/ \E s \in 1..Len(mSockets) : MwsError(s)
    \/ \E s \in 1..Len(mSockets) : MwsStartsClosing(s)
    \/ \E s \in 1..Len(mSockets) : MwsCloses(s)

-----------------------------------------------------------------------------
(* Hub: serial prober, controller registry, channel health tracker and     *)
(* message router.  server-multi.py is not among the sources; this section *)
(* follows spec.md 4.1-4.3, 6, 7 and README.md.                            *)

\* --engine-count 2: slots are named sequentially from "A"
EngineSlots == <<"A", "B">>
HubSlots == {EngineSlots[i] : i \in 1..Len(EngineSlots)}

\* DEVICE_ID_TO_ENGINE: the identity -> slot table
DeviceIdToEngine == [d \in {"BKTP_CTL_01"} |-> "A"]

\* what can sit on a serial port: two controllers (one in the identity table,
\* one not), a device that never answers, one that answers with a line that is
\* not JSON, one that answers a hello of another deviceType
Controllers == {"BKTP_CTL_01", "ctrl-01"}
OtherDevices == {"silent", "garbage", "printer"}
Ports == {"p1", "p2"}

\* staleThreshold, in resend intervals of the controller (about 3x)
StaleThreshold == 3

NoController == [deviceId |-> "", slot |-> ""]
NoHubOp == [op |-> "", port |-> "", msg |-> << >>]

Attached == {p \in Ports : registry[p] # NoController}
OwnerPorts(reg, slot) == {p \in Ports : reg[p] # NoController /\ reg[p].slot = slot}
SlotFree(reg, slot) == OwnerPorts(reg, slot) = {}

\* the first free slot in slot order, "none" when every slot is owned
FirstFreeSlot(reg) ==
    IF \E i \in 1..Len(EngineSlots) : SlotFree(reg, EngineSlots[i])
    THEN EngineSlots[CHOOSE i \in 1..Len(EngineSlots) :
                        /\ SlotFree(reg, EngineSlots[i])
                        /\ \A j \in 1..(i - 1) : ~SlotFree(reg, EngineSlots[j])]
    ELSE "none"

\* a slot assignment that takes the slot of the identity table whoever owns it
AssignSlotEvicting(reg, deviceId) ==
    IF deviceId \in DOMAIN DeviceIdToEngine
    THEN DeviceIdToEngine[deviceId]
    ELSE FirstFreeSlot(reg)

\* slot assignment: the slot of the identity table if it is free (nothing is
\* evicted: else the controller is discovered but unassigned, "none");
\* otherwise the first free slot
AssignSlot(reg, deviceId) ==
    IF deviceId \in DOMAIN DeviceIdToEngine
    THEN IF SlotFree(reg, DeviceIdToEngine[deviceId])
         THEN DeviceIdToEngine[deviceId]
         ELSE "none"
    ELSE FirstFreeSlot(reg)

\* a health block that reports a channel online up to and including the threshold
ChannelHealthInclusive(ts, now, slot) ==
    [online |-> ts[slot] >= 0 /\ now - ts[slot] <= StaleThreshold,
     ageMs |-> IF ts[slot] >= 0 THEN now - ts[slot] ELSE -1]

\* the health block of a slot: online while now - lastUpdateTs < staleThreshold,
\* ageMs recomputed per emission
ChannelHealth(ts, now, slot) ==
    [online |-> ts[slot] >= 0 /\ now - ts[slot] < StaleThreshold,
     ageMs |-> IF ts[slot] >= 0 THEN now - ts[slot] ELSE -1]

\* the controllerStatus snapshot: per engine connected, deviceId, health
ControllerStatus(reg, ts, now) ==
    [slot \in HubSlots |->
        [connected |-> ~SlotFree(reg, slot),
         deviceId |-> IF SlotFree(reg, slot) THEN ""
                      ELSE reg[CHOOSE p \in OwnerPorts(reg, slot) : TRUE].deviceId,
         channel |-> ChannelHealth(ts, now, slot)]]

\* a device is plugged into a free port
Plug(p, d) ==
    /\ plugged[p] = "none"
    /\ \A q \in Ports : plugged[q] # d
    /\ plugged' = [plugged EXCEPT ![p] = d]
    /\ hubLast' = NoHubOp
    /\ UNCHANGED <<openPorts, probing, registry, hubNow, lastUpdateTs>>
    /\ UNCHANGED <<clientVars, fanVars, fwVars, ctlVars>>

\* a device is pulled
Unplug(p) ==
    /\ plugged[p] # "none"
    /\ plugged' = [plugged EXCEPT ![p] = "none"]
    /\ hubLast' = NoHubOp
    /\ UNCHANGED <<openPorts, probing, registry, hubNow, lastUpdateTs>>
    /\ UNCHANGED <<clientVars, fanVars, fwVars, ctlVars>>

\* scan(), for one enumerated port that is not attached: open it at the
\* fixed baud rate and write the probe frame
ScanProbes(p) ==
    /\ p \notin Attached
    /\ p \notin probing
    /\ openPorts' = openPorts \cup {p}
    /\ probing' = probing \cup {p}
    /\ hubLast' = [op |-> "probe", port |-> p, msg |-> << >>]
    /\ UNCHANGED <<plugged, registry, hubNow, lastUpdateTs>>
    /\ UNCHANGED <<clientVars, fanVars, fwVars, ctlVars>>

\* a probe that ends without closing the port
ProbeFailsLeavesOpen(p) ==
    /\ p \in probing
    /\ plugged[p] \notin Controllers
    /\ probing' = probing \ {p}
    /\ hubLast' = [op |-> "probeFailed", port |-> p, msg |-> << >>]
    /\ UNCHANGED <<openPorts, plugged, registry, hubNow, lastUpdateTs>>
    /\ UNCHANGED <<clientVars, fanVars, fwVars, ctlVars>>

\* the probe ends with no reply within the timeout, a reply that is not JSON
\* or a hello of another deviceType: the port is closed and stays a candidate
ProbeFails(p) ==
    /\ p \in probing
    /\ plugged[p] \notin Controllers
    /\ probing' = probing \ {p}
    /\ openPorts' = openPorts \ {p}
    /\ hubLast' = [op |-> "probeFailed", port |-> p, msg |-> << >>]
    /\ UNCHANGED <<plugged, registry, hubNow, lastUpdateTs>>
    /\ UNCHANGED <<clientVars, fanVars, fwVars, ctlVars>>

\* the reply is a hello with deviceType "bauklank-controller": a Controller
\* is created and a slot assigned
ProbeAttaches(p) ==
    /\ p \in probing
    /\ plugged[p] \in Controllers
    /\ probing' = probing \ {p}
    /\ registry' = [registry EXCEPT
                      ![p] = [deviceId |-> plugged[p],
                              slot |-> AssignSlot(registry, plugged[p])]]
    /\ hubLast' = [op |-> "attach", port |-> p, msg |-> << >>]
    /\ UNCHANGED <<plugged, openPorts, hubNow, lastUpdateTs>>
    /\ UNCHANGED <<clientVars, fanVars, fwVars, ctlVars>>

\* a detachment that removes the controller but keeps its slot taken
\* (the entry stays in the registry)
DetachKeepsSlot(p) ==
    /\ p \in Attached
    /\ registry' = [registry EXCEPT ![p].deviceId = "gone"]
    /\ openPorts' = openPorts \ {p}
    /\ hubLast' = [op |-> "detach", port |-> p, msg |-> << >>]
    /\ UNCHANGED <<plugged, probing, hubNow, lastUpdateTs>>
    /\ UNCHANGED <<clientVars, fanVars, fwVars, ctlVars>>

\* a read or write on the port of a controller fails, or its stream closes:
\* the Controller is removed from the registry and its slot freed
Detach(p) ==
    /\ p \in Attached
    /\ registry' = [registry EXCEPT ![p] = NoController]
    /\ openPorts' = openPorts \ {p}
    /\ hubLast' = [op |-> "detach", port |-> p, msg |-> << >>]
    /\ UNCHANGED <<plugged, probing, hubNow, lastUpdateTs>>
    /\ UNCHANGED <<clientVars, fanVars, fwVars, ctlVars>>

\* the lines a controller port can deliver
DeviceLines == {"set", "hello", "garbage", "unknown"}

\* a router that tags every set with the first slot
RouteToFirstSlot(reg, p) == EngineSlots[1]

\* the engine tag of a set read from port p: the slot of its controller
RouteTo(reg, p) == reg[p].slot

\* the router classifies a line read from the port of an attached controller
DeviceLine(p, line) ==
    /\ p \in Attached
    /\ plugged[p] = registry[p].deviceId
    /\ IF line = "set" /\ registry[p].slot # "none"
       THEN /\ hubLast' = [op |-> "set", port |-> p,
                           msg |-> << [type |-> "set", engine |-> RouteTo(registry, p),
                                       key |-> "volume", value |-> 50] >>]
            /\ lastUpdateTs' = [lastUpdateTs EXCEPT ![registry[p].slot] = hubNow]
       ELSE /\ hubLast' = [op |-> IF line = "set" THEN "unrouted"
                                   ELSE IF line = "hello" THEN "hello" ELSE "dropped",
                           port |-> p, msg |-> << >>]
            /\ UNCHANGED lastUpdateTs
    /\ UNCHANGED <<plugged, openPorts, probing, registry, hubNow>>
    /\ UNCHANGED <<clientVars, fanVars, fwVars, ctlVars>>

\* the router's timer: a controllerStatus snapshot is assembled and emitted
EmitControllerStatus ==
    /\ hubLast.op # "status"
    /\ hubLast' = [op |-> "status", port |-> "",
                   msg |-> << [type |-> "controllerStatus",
                               engines |-> ControllerStatus(registry, lastUpdateTs, hubNow)] >>]
    /\ UNCHANGED <<plugged, openPorts, probing, registry, hubNow, lastUpdateTs>>
    /\ UNCHANGED <<clientVars, fanVars, fwVars, ctlVars>>

\* one resend interval passes
HubTick ==
    /\ hubNow < MaxHubTime
    /\ hubNow' = hubNow + 1
    /\ hubLast' = NoHubOp
    /\ UNCHANGED <<plugged, openPorts, probing, registry, lastUpdateTs>>
    /\ UNCHANGED <<clientVars, fanVars, fwVars, ctlVars>>

\* the hub has started: no port open, no controller, no set seen
HubInit ==
    /\ plugged = [p \in Ports |-> "none"]
    /\ openPorts = {}
    /\ probing = {}
    /\ registry = [p \in Ports |-> NoController]
    /\ hubNow = 0
    /\ lastUpdateTs = [s \in HubSlots |-> -1]
    /\ hubLast = NoHubOp

HubNext ==
    \/ \E p \in Ports : \E d \in Controllers \cup OtherDevices : Plug(p, d)
    \/ \E p \in Ports : Unplug(p)
    \/ \E p \in Ports : ScanProbes(p)
    \/ \E p \in Ports : ProbeFails(p)
    \/ \E p \in Ports : ProbeAttaches(p)
    \/ \E p \in Ports : Detach(p)
    \/ \E p \in Ports : \E line \in DeviceLines : DeviceLine(p, line)
    \/ EmitControllerStatus
    \/ HubTick

-----------------------------------------------------------------------------
(* Embedded controller: the serial side of the firmware                    *)
(* (src/unnamed/part_005).  The input is a sequence of pieces: "who" and   *)
(* "areyou", which next to each other spell the probe word, "pad", a run   *)
(* of 250 other characters, and the characters CR and LF.  None of them is *)
(* white space, so line.trim() leaves a line of such pieces as it is.      *)

FwPieces == {"who", "areyou", "pad", "CR", "LF"}
PieceLen(t) ==
    CASE t = "who" -> 3
      [] t = "areyou" -> 6
      [] t = "pad" -> 250
      [] OTHER -> 1

\* if (lineBuffer.length() < 256) lineBuffer += c
LineBufferCap == 256

\* line.indexOf("whoareyou") >= 0, on a sequence of pieces
isWhoAreYouMessage(toks) ==
    \E i \in 1..(Len(toks) - 1) : toks[i] = "who" /\ toks[i + 1] = "areyou"

EmptyLineBuffer == [toks |-> << >>, len |-> 0, raw |-> << >>]

\* the characters of piece t are appended one by one while the buffer is
\* below its cap; a piece that fits only in part leaves a prefix of itself
\* ("cut"), which is no piece any more.  raw is history: the line as received
AppendPiece(buf, t) ==
    LET room == IF buf.len < LineBufferCap THEN LineBufferCap - buf.len ELSE 0
    IN  IF room >= PieceLen(t)
        THEN [toks |-> Append(buf.toks, t), len |-> buf.len + PieceLen(t),
              raw |-> Append(buf.raw, t)]
        ELSE IF room > 0
        THEN [toks |-> Append(buf.toks, "cut"), len |-> LineBufferCap,
              raw |-> Append(buf.raw, t)]
        ELSE [buf EXCEPT !.raw = Append(buf.raw, t)]

\* a handler that answers every line that is not empty
handleSerialLineAnyLine(toks) == IF Len(toks) = 0 THEN 0 ELSE 1

\* handleSerialLine(line): the number of hello lines it writes
handleSerialLine(toks) ==
    IF Len(toks) = 0 THEN 0
    ELSE IF isWhoAreYouMessage(toks) THEN 1 ELSE 0

\* readSerialLines(): while (Serial.available() > 0) { ... }
RECURSIVE readSerialLines(_, _, _, _)
readSerialLines(rx, buf, tx, lines) ==
    IF rx = << >> THEN [buf |-> buf, tx |-> tx, lines |-> lines]
    ELSE LET c == Head(rx)
         IN  IF c = "CR"
             THEN readSerialLines(Tail(rx), [buf EXCEPT !.raw = Append(buf.raw, c)],
                                  tx, lines)
             ELSE IF c = "LF"
             THEN LET n == handleSerialLine(buf.toks)
                  IN  readSerialLines(Tail(rx), EmptyLineBuffer,
                                      tx \o [i \in 1..n |-> "hello"],
                                      Append(lines, [raw |-> buf.raw, hellos |-> n]))
             ELSE readSerialLines(Tail(rx), AppendPiece(buf, c), tx, lines)

\* pieces received so far
RECURSIVE FwLineSizes(_)
FwLineSizes(lines) ==
    IF lines = << >> THEN 0 ELSE Len(Head(lines).raw) + 1 + FwLineSizes(Tail(lines))
FwReceived == FwLineSizes(fwLines) + Len(lineBuffer.raw) + Len(fwRx)

\* setup(): ends in sendHello() (the banner and the set lines are written by
\* other functions and left out of fwTx)
FwSetup ==
    /\ ~fwBooted
    /\ fwBooted' = TRUE
    /\ fwTx' = Append(fwTx, "hello")
    /\ UNCHANGED <<fwRx, lineBuffer, fwLines>>
    /\ UNCHANGED <<clientVars, hubVars, fanVars, ctlVars>>

\* the host writes to the serial line: the UART buffers what arrives
FwReceive(t) ==
    /\ FwReceived < MaxFwInput
    /\ fwRx' = Append(fwRx, t)
    /\ UNCHANGED <<fwBooted, lineBuffer, fwTx, fwLines>>
    /\ UNCHANGED <<clientVars, hubVars, fanVars, ctlVars>>

\* loop(): readSerialLines()
FwLoop ==
    /\ fwBooted
    /\ fwRx # << >>
    /\ LET r == readSerialLines(fwRx, lineBuffer, fwTx, fwLines)
       IN  /\ lineBuffer' = r.buf
           /\ fwTx' = r.tx
           /\ fwLines' = r.lines
    /\ fwRx' = << >>
    /\ UNCHANGED fwBooted
    /\ UNCHANGED <<clientVars, hubVars, fanVars, ctlVars>>

\* power-on
FwInit ==
    /\ fwBooted = FALSE
    /\ fwRx = << >>
    /\ lineBuffer = EmptyLineBuffer
    /\ fwTx = << >>
    /\ fwLines = << >>

FwNext ==
    \/ FwSetup
    \/ \E t \in FwPieces : FwReceive(t)
    \/ FwLoop

-----------------------------------------------------------------------------
(* Hub: fan-out server.  server-multi.py is not among the sources; this    *)
(* section follows spec.md 4.4, 5 and 7 (SlowClient).  Messages are        *)
(* numbered in production order from 1; 0 is the serverVersion message a   *)
(* client is sent on connect.                                              *)

ServerVersionMsg == 0

Broadcasted == Len(produced) - Len(toSend)
OpenConns == {c \in 1..Len(conns) : conns[c].state = "open"}

\* an outbound buffer that puts the newest message first
EnqueueFront(q, m) == <<m>> \o q

\* the outbound buffer of a connection is first in, first out
Enqueue(q, m) == Append(q, m)

\* a server that waits until every connection has room for the message
BroadcastWaitsForRoom == \A c \in OpenConns : Len(conns[c].queue) < MaxBuffer

\* the server never waits for a connection before it broadcasts
BroadcastReady == TRUE

\* the router or the health tracker produces a message
Produce ==
    /\ Len(produced) < MaxMsgs
    /\ produced' = Append(produced, Len(produced) + 1)
    /\ toSend' = Append(toSend, Len(produced) + 1)
    /\ UNCHANGED conns
    /\ UNCHANGED <<clientVars, hubVars, fwVars, ctlVars>>

\* the server broadcasts the oldest message not broadcast yet to every open
\* connection; a connection whose outbound buffer is full is closed
Broadcast ==
    /\ toSend # << >>
    /\ BroadcastReady
    /\ toSend' = Tail(toSend)
    /\ conns' = [c \in 1..Len(conns) |->
                    IF conns[c].state # "open" THEN conns[c]
                    ELSE IF Len(conns[c].queue) >= MaxBuffer
                    THEN [conns[c] EXCEPT !.state = "dropped", !.queue = << >>]
                    ELSE [conns[c] EXCEPT !.queue = Enqueue(@, Head(toSend))]]
    /\ UNCHANGED produced
    /\ UNCHANGED <<clientVars, hubVars, fwVars, ctlVars>>

\* a client connects: it is sent serverVersion at once.  slow: the client
\* may stop reading for any length of time
ClientConnects(slow) ==
    /\ Len(conns) < MaxConns
    /\ conns' = Append(conns, [state |-> "open", slow |-> slow, joined |-> Broadcasted,
                               queue |-> <<ServerVersionMsg>>, got |-> << >>])
    /\ UNCHANGED <<produced, toSend>>
    /\ UNCHANGED <<clientVars, hubVars, fwVars, ctlVars>>

\* the connection takes the next message of its outbound buffer
Deliver(c) ==
    /\ conns[c].state = "open"
    /\ conns[c].queue # << >>
    /\ conns' = [conns EXCEPT ![c].queue = Tail(@),
                              ![c].got = Append(@, Head(conns[c].queue))]
    /\ UNCHANGED <<produced, toSend>>
    /\ UNCHANGED <<clientVars, hubVars, fwVars, ctlVars>>

\* the client closes the connection or the network drops it: no retry by
\* the server
ClientCloses(c) ==
    /\ conns[c].state = "open"
    /\ conns' = [conns EXCEPT ![c].state = "closed", ![c].queue = << >>]
    /\ UNCHANGED <<produced, toSend>>
    /\ UNCHANGED <<clientVars, hubVars, fwVars, ctlVars>>

FanInit ==
    /\ produced = << >>
    /\ toSend = << >>
    /\ conns = << >>

\* delivery to a client that keeps reading
DeliverResponsive(c) == c <= Len(conns) /\ ~conns[c].slow /\ Deliver(c)

FanNext ==
    \/ Produce
    \/ Broadcast
    \/ \E slow \in BOOLEAN : ClientConnects(slow)
    \/ \E c \in 1..Len(conns) : Deliver(c)
    \/ \E c \in 1..Len(conns) : ClientCloses(c)

-----------------------------------------------------------------------------
(* The controller's volume on its way to the multi-engine client: the      *)
(* analog reader reports a percentage, the controller maps it and writes   *)
(* a set line, the hub tags the line with the controller's slot and the    *)
(* client applies it.                                                      *)

PLAYER_MINIMUM_VOLUME == 1
PLAYER_MAXIMUM_VOLUME == 50

\* mapAnalogPercentToPlayerVolume(analogPercent0to100), in long arithmetic
mapAnalogPercentToPlayerVolume(analogPercent0to100) ==
    LET minVol == Min(PLAYER_MINIMUM_VOLUME, PLAYER_MAXIMUM_VOLUME)
        maxVol == Max(PLAYER_MINIMUM_VOLUME, PLAYER_MAXIMUM_VOLUME)
    IN  (clamp(analogPercent0to100, 0, 100) * (maxVol - minVol)) \div 100 + minVol

\* sendVolumeSet(volume1to100): the line written, {"type":"set","key":"volume","value":N}
sendVolumeSet(volume1to100) ==
    [type |-> "set", key |-> "volume", value |-> Num(1000 * clamp(volume1to100, 1, 100))]

\* the readings of the analog input, in percent
AnalogPercents == 0..100

\* the analog reader's callback sends the mapped volume; the line reaches
\* the client as a set tagged with the controller's slot
ControllerVolume(percent) ==
    LET msg == sendVolumeSet(mapAnalogPercentToPlayerVolume(percent))
    IN  WsSetMessage(Str("A"), msg.key, msg.value)

VolumeNext ==
    \/ \E percent \in AnalogPercents : ControllerVolume(percent)
    \/ \E i \in 1..Len(mLoads) : EngineRead(i)
    \/ \E i \in 1..Len(mLoads) : EngineDecoded(i)
    \/ \E i \in 1..Len(mLoads) : EngineCreated(i)
    \/ \E i \in 1..Len(mLoads) : EngineBuffersAdded(i)

-----------------------------------------------------------------------------
(* Embedded controller: the rate sweep and the display (part_005).         *)
(* loop() reads the serial line (above) and runs the ticks below; the two  *)
(* share no variable and are followed each on its own.  A rate is held in  *)
(* thousandths (0.001 is 1).  millis() is a 32-bit counter of ms; the      *)
(* clock is held here in units of 4 ms, every interval of the code being a *)
(* multiple of 4 ms, so that it wraps at 2^30 units = 2^32 ms.  The lines  *)
(* tickResendVolume writes are not followed.                               *)

ClockUnitMs == 4
ClockModulus == Pow2(30)
Ticks(ms) == ms \div ClockUnitMs

volumeDisplayDurationMs == 1200
rateIntervalMs == 1000
rateMin == 1
rateMax == 150
rateStep == 1
\* const float epsilon = 0.0005f, in millionths
RateEpsilonMicro == 500

Abs(x) == IF x < 0 THEN -x ELSE x

\* a - b of two uint32_t values
ClockDiff(a, b) == (a - b + ClockModulus) % ClockModulus

\* Serial.print(rateValue, 2): the value on the wire, in hundredths
PrintRate2(rateValue) == (rateValue + 5) \div 10

\* rateToDisplay(rateValue, ...) with useRateScalePrefix false: the prefix is
\* always 'r', the code is lroundf(rateValue * 1000) cut to 0..999
rateToDisplay(rateValue) == clamp(Max(rateValue, 0), 0, 999)

\* the state the ticks work on: g the globals of the sketch, h the history
\* (in clock units since boot: when the volume was last shown, when a rate
\* text was last written; the rate last handed over by the sweep while the
\* volume's interval ran), tx the values of the last two rate lines written

\* showVolumeOnDisplay(volume1to100)
showVolumeOnDisplay(m, nowMs, up) ==
    [m EXCEPT !.g.volumeDisplayUntilMs = (nowMs + Ticks(volumeDisplayDurationMs)) % ClockModulus,
              !.h.volShownAt = up]

\* history: the volume's interval runs at `up`
IntervalRuns(h, up) == h.volShownAt # -1 /\ up - h.volShownAt < Ticks(volumeDisplayDurationMs)

\* showRateOnDisplayIfChanged(rateValue)
showRateOnDisplayIfChanged(m, nowMs, up, rateValue) ==
    IF nowMs < m.g.volumeDisplayUntilMs
    THEN [m EXCEPT !.g.pendingRateUpdate = TRUE, !.g.pendingRateValue = rateValue]
    ELSE IF rateToDisplay(rateValue) = m.g.lastRateDisplayCode THEN m
    ELSE [m EXCEPT !.g.lastRateDisplayCode = rateToDisplay(rateValue),
                   !.h.rateWrittenAt = up]

\* tickApplyPendingRate(nowMs)
tickApplyPendingRate(m, nowMs, up) ==
    IF ~m.g.pendingRateUpdate THEN m
    ELSE IF nowMs < m.g.volumeDisplayUntilMs THEN m
    ELSE showRateOnDisplayIfChanged([m EXCEPT !.g.pendingRateUpdate = FALSE],
                                    nowMs, up, m.g.pendingRateValue)

\* sendRateSet(rateValue)
sendRateSet(m, rateValue) ==
    LET r == clamp(rateValue, rateMin, rateMax)
    IN  IF 1000 * Abs(r - m.g.lastSentRate) < RateEpsilonMicro THEN m
        ELSE [m EXCEPT !.g.lastSentRate = r,
                       !.tx = IF Len(@) < 2 THEN Append(@, PrintRate2(r))
                              ELSE <<@[2], PrintRate2(r)>>]

\* the end of tickRateSweep: the next step of the sweep, bouncing at the ends
AdvanceSweep(g) ==
    LET next == g.currentRate + g.rateDirection * rateStep
    IN  IF next >= rateMax
        THEN [g EXCEPT !.currentRate = rateMax - rateStep, !.rateDirection = -1]
        ELSE IF next <= rateMin
        THEN [g EXCEPT !.currentRate = rateMin + rateStep, !.rateDirection = 1]
        ELSE [g EXCEPT !.currentRate = next]

\* tickRateSweep(nowMs)
tickRateSweep(m, nowMs, up) ==
    IF ClockDiff(nowMs, m.g.lastRateSendMs) < Ticks(rateIntervalMs) THEN m
    ELSE LET m1 == sendRateSet([m EXCEPT !.g.lastRateSendMs = nowMs], m.g.currentRate)
             m2 == showRateOnDisplayIfChanged(m1, nowMs, up, m.g.currentRate)
             m3 == IF IntervalRuns(m2.h, up)
                   THEN [m2 EXCEPT !.h.lateRate = m.g.currentRate] ELSE m2
         IN  [m3 EXCEPT !.g = AdvanceSweep(@)]

\* the callback registered with analogReader: value is the reading in percent,
\* -1 when the reader reports no change in this pass of loop()
analogCallback(m, nowMs, up, value) ==
    LET mappedVolume == mapAnalogPercentToPlayerVolume(value)
    IN  IF value = -1 THEN m
        ELSE IF m.g.hasVolume /\ mappedVolume = m.g.lastMappedVolume THEN m
        ELSE showVolumeOnDisplay(
                [m EXCEPT !.g.lastMappedVolume = mappedVolume, !.g.hasVolume = TRUE],
                nowMs, up)

\* setup() waits 150 ms and writes its banner before it reads the input
SetupDoneMs == 200

\* the globals after setup(): emitCurrent() reported the reading (the volume
\* is on the display), the first rate line is written
CtlGlobalsAfterSetup ==
    [lastRateSendMs |-> 0, lastSentRate |-> rateMin, currentRate |-> rateMin,
     rateDirection |-> 1, hasVolume |-> TRUE,
     lastMappedVolume |-> mapAnalogPercentToPlayerVolume(0),
     volumeDisplayUntilMs |-> Ticks(SetupDoneMs + volumeDisplayDurationMs),
     pendingRateUpdate |-> FALSE, pendingRateValue |-> 0, lastRateDisplayCode |-> -1]

\* one pass of loop(), sinceLast ms after the last one
CtlLoop(sinceLast, value) ==
    /\ ctlClock.loops < MaxCtlLoops
    /\ LET nowMs == (ctlClock.millis + Ticks(sinceLast)) % ClockModulus
           up == ctlClock.uptime + Ticks(sinceLast)
           \* history: the interval ended between the last pass and this one
           ended == IntervalRuns(ctlHist, ctlClock.uptime) /\ ~IntervalRuns(ctlHist, up)
           m0 == [g |-> ctl,
                  h |-> [ctlHist EXCEPT !.lateRate = IF ctlHist.justEnded THEN -1 ELSE @],
                  tx |-> rateTx]
           m1 == analogCallback(m0, nowMs, up, value)
           m2 == tickRateSweep(m1, nowMs, up)
           m3 == tickApplyPendingRate(m2, nowMs, up)
       IN  /\ ctl' = m3.g
           /\ ctlHist' = [m3.h EXCEPT !.justEnded = ended /\ m3.h.volShownAt = ctlHist.volShownAt]
           /\ rateTx' = m3.tx
           /\ ctlClock' = [millis |-> nowMs, uptime |-> up, loops |-> ctlClock.loops + 1]
    /\ UNCHANGED <<clientVars, hubVars, fanVars, fwVars>>

\* the controller runs on for some seven weeks with the volume untouched;
\* the sweep, a cycle of 296 steps, is where it was, its last step just
\* taken, and the clock is short of its wrap
CtlRunsForWeeks(toWrapMs) ==
    /\ ctlClock.uptime < ClockModulus \div 2
    /\ ~IntervalRuns(ctlHist, ctlClock.uptime) /\ ~ctl.pendingRateUpdate
    /\ ~ctlHist.justEnded
    /\ ctl.currentRate >= rateMin + 2 * rateStep
    /\ LET nowMs == ClockModulus - Ticks(toWrapMs)
       IN  /\ ctlClock' = [ctlClock EXCEPT !.millis = nowMs,
                                           !.uptime = @ + ClockDiff(nowMs, ctlClock.millis)]
           /\ ctl' = [ctl EXCEPT !.lastRateSendMs = nowMs]
    /\ UNCHANGED <<ctlHist, rateTx, clientVars, hubVars, fanVars, fwVars>>

CtlInit ==
    /\ ctl = CtlGlobalsAfterSetup
    /\ ctlClock = [millis |-> Ticks(SetupDoneMs), uptime |-> Ticks(SetupDoneMs), loops |-> 0]
    /\ ctlHist = [volShownAt |-> Ticks(SetupDoneMs), rateWrittenAt |-> -1, lateRate |-> -1, justEnded |-> FALSE]
    /\ rateTx = <<PrintRate2(rateMin)>>

CtlNext ==
    \/ \E sinceLast \in {400, 1000}, value \in {-1, 0, 100} : CtlLoop(sinceLast, value)
    \/ \E toWrapMs \in {1600, 600} : CtlRunsForWeeks(toWrapMs)

-----------------------------------------------------------------------------
Init ==
    /\ WsInit /\ CfgInit /\ MultiInit /\ MultiWsInit
    /\ HubInit /\ FanInit /\ FwInit /\ CtlInit

SpecCfg == Init /\ [][CfgNext]_vars

SpecSched == Init /\ [][SchedNext]_vars

SpecWs == Init /\ [][WsNext]_vars

SpecMulti == Init /\ [][MultiNext]_vars

\* the multi-engine client opened for both slots (?engines=2)
InitBothSlots ==
    /\ WsInit /\ CfgInit /\ MultiInitWith(<<"A", "B">>) /\ MultiWsInit
    /\ HubInit /\ FanInit /\ FwInit /\ CtlInit

SpecBothSlots == InitBothSlots /\ [][MultiNext]_vars

SpecMultiWs == Init /\ [][MultiWsNext]_vars

\* the two clients side by side, each on a page of its own, their timers
\* firing once due (setTimeout callbacks run when the event loop is free)
RecoverTimerFires == ReconnectTimerFires /\ Len(sockets') <= MaxRecoverSockets
RecoverMwsTimerFires == MwsTimerFires /\ Len(mSockets') <= MaxRecoverSockets
RecoverNext ==
    \/ WsNext /\ Len(sockets') <= MaxRecoverSockets
    \/ MultiWsNext /\ Len(mSockets') <= MaxRecoverSockets

\* the single control loop of the hub serves every connection in turn: a
\* pending broadcast is carried out, and a connection whose client keeps
\* reading takes what is in its buffer
SpecFanout ==
    /\ Init
    /\ [][FanNext]_vars
    /\ WF_vars(Broadcast)
    /\ \A c \in 1..MaxConns : WF_vars(DeliverResponsive(c))

SpecFw == Init /\ [][FwNext]_vars

SpecCtl == Init /\ [][CtlNext]_vars

SpecVolume == Init /\ [][VolumeNext]_vars

SpecHub == Init /\ [][HubNext]_vars

SpecRecover ==
    /\ Init
    /\ [][RecoverNext]_vars
    /\ WF_vars(WsTimePasses)
    /\ WF_vars(RecoverTimerFires)
    /\ WF_vars(RecoverMwsTimerFires)

-----------------------------------------------------------------------------
(* C1: the delay scheduled after the k-th consecutive connection failure   *)
(* (closes since the last successful open) is min(8000, 250 * 2^(k-1)) ms. *)
C1_DelayFollowsConsecutiveFailures ==
    lastSched.k > 0 =>
        lastSched.delay = Min(8000, 250 * Pow2(Min(lastSched.k - 1, 6)))

(* C2: at most one WebSocket created by the client is CONNECTING or OPEN.  *)
C2_AtMostOneLiveSocket ==
    Cardinality({s \in 1..Len(sockets) : Live(s)}) <= 1

\* what a configure call carrying the config values cv is expected to pass
C8_Expected(cv) ==
    [blockMs |-> clamp(toFiniteNumber(cv.blockMs, Num(60000)).n, 10000, 500000),
     overlap |-> clamp(toFiniteNumber(cv.overlap, Num(1500)).n, 1000, 8000),
     splitComputation |-> Truthy(cv.splitComputation)]

(* C8 as stated: a burst of config changes that all fall within one 50 ms   *)
(* window, an engine instance being loaded, is carried by exactly one      *)
(* configure call, which has the values of the burst's last change.        *)
C8_ExactlyOneConfigurePerBurst ==
    (burst.on /\ burst.loaded) =>
        /\ burst.calls <= 1
        /\ configTimeout = -1 =>
              (burst.calls = 1 /\ lastConfigure.args = C8_Expected(configValues))

(* C8 amended: a burst whose first change finds no config timer pending is *)
(* carried by exactly one configure call, issued when the timer that       *)
(* change started fires, with the values of the last change; a burst that  *)
(* begins while a timer is pending is carried by at most two calls, the    *)
(* last of which has the values of the last change.                        *)
C8_OneConfigurePerTimerWindow ==
    (burst.on /\ burst.loaded) =>
        /\ burst.armed => burst.calls <= 1
        /\ burst.calls <= 2
        /\ configTimeout = -1 =>
              (burst.calls >= 1 /\ ~burst.dirty
                 /\ lastConfigure.args = C8_Expected(configValues))

C8_Witness ==
    /\ burst.on /\ burst.loaded /\ burst.armed
    /\ burst.n >= 2
    /\ burst.calls = 1
    /\ configTimeout = -1
    /\ lastConfigure.args = C8_Expected(configValues)
    /\ lastConfigure.args # C8_Expected(configValuesInitial)

-----------------------------------------------------------------------------
(* Claims about the multi-engine client.  lastOp names the handler whose   *)
(* run produced the current engines and calls.                             *)

SetApplied(key) == lastOp.name = "applyIncomingSet" /\ lastOp.key = key
SetIsFinite == IsFinite(IF lastOp.value.t = "number" THEN lastOp.value ELSE Number(lastOp.value))
SetNumber == (IF lastOp.value.t = "number" THEN lastOp.value ELSE Number(lastOp.value)).n
SetEngine == engines[lastOp.slot]

(* C3: applyIncomingSet(slot, "volumePercent", v) with finite v stores     *)
(* volume = clamp(v, 0, 100) / 100: 150 stores 1.0, a negative v stores 0. *)
C3_VolumePercentClamped ==
    (SetApplied("volumePercent") /\ SetIsFinite) =>
        /\ SetNumber < 0 => SetEngine.controlValues.volume = 0
        /\ SetNumber > 100000 => SetEngine.controlValues.volume = 1000
        /\ (SetNumber >= 0 /\ SetNumber <= 100000) =>
              SetEngine.controlValues.volume * 100 = SetNumber

C3_Witness ==
    /\ SetApplied("volumePercent")
    /\ lastOp.value = Num(150000)
    /\ SetEngine.controlValues.volume = 1000

(* C4: applyIncomingSet(slot, "volumePercent", x) with x not coercing to a *)
(* finite number leaves the slot's stored volume as it was.                *)
C4_NonFiniteVolumePercentKeepsVolume ==
    [][ ( /\ opsDone' = opsDone + 1
          /\ lastOp'.name = "applyIncomingSet"
          /\ lastOp'.key = "volumePercent"
          /\ ~IsFinite(IF lastOp'.value.t = "number" THEN lastOp'.value
                       ELSE Number(lastOp'.value)) )
        => engines'[lastOp'.slot].controlValues.volume
             = engines[lastOp'.slot].controlValues.volume ]_vars

\* the stored semitones are the tone, clamped to [-24, 24] and rounded half up
C5_Stored ==
    LET c == IF SetNumber < -24000 THEN -24000
             ELSE IF SetNumber > 24000 THEN 24000 ELSE SetNumber
        st == SetEngine.controlValues.semitones
    IN  st % 1000 = 0 /\ c - 500 < st /\ st <= c + 500

(* C5 as stated: applyIncomingSet(slot, "tone", n) with finite n stores    *)
(* semitones = round(clamp(n, -24, 24)) and emits exactly one schedule     *)
(* call, in every state of the slot.                                       *)
C5_ToneSchedulesOnce ==
    (SetApplied("tone") /\ SetIsFinite) =>
        (C5_Stored /\ CountCalls(calls, "schedule") = 1)

(* C5 amended: the value is stored in every state; exactly one schedule    *)
(* call is made, to the slot's engine instance and with the stored value,  *)
(* when the slot has an engine instance, and none when it has none.        *)
C5_ToneSchedulesOnceWhenLoaded ==
    (SetApplied("tone") /\ SetIsFinite) =>
        /\ C5_Stored
        /\ CountCalls(calls, "schedule") = IF SetEngine.stretch # 0 THEN 1 ELSE 0
        /\ \A i \in 1..Len(calls) : calls[i].op = "schedule" =>
              /\ calls[i].slot = lastOp.slot
              /\ calls[i].inst = SetEngine.stretch
              /\ calls[i].args.semitones = SetEngine.controlValues.semitones

C5_Witness ==
    /\ SetApplied("tone")
    /\ lastOp.value = Num(30000)
    /\ SetEngine.controlValues.semitones = 24000
    /\ SetEngine.stretch # 0
    /\ CountCalls(calls, "schedule") = 1

(* C6: after applyIncomingSet on a loop bound the stored bounds satisfy    *)
(* loopStart <= loopEnd (audio of at least 5 s being loaded).              *)
C6_StoredLoopBoundsOrdered ==
    ( /\ lastOp.name = "applyIncomingSet"
      /\ lastOp.key \in {"loopStart", "loopEnd"}
      /\ SetEngine.audioDuration >= 5000 )
    => SetEngine.controlValues.loopStart <= SetEngine.controlValues.loopEnd

(* C7: every schedule call carries 0 <= loopStart <= loopEnd <= duration,  *)
(* the duration being that of the audio decoded for the slot.              *)
C7_ScheduledLoopBoundsOrdered ==
    \A i \in 1..Len(calls) : calls[i].op = "schedule" =>
        /\ 0 <= calls[i].args.loopStart
        /\ calls[i].args.loopStart <= calls[i].args.loopEnd
        /\ calls[i].args.loopEnd <= engines[calls[i].slot].audioDuration

C7_Witness ==
    \E i \in 1..Len(calls) :
        /\ calls[i].op = "schedule"
        /\ engines[calls[i].slot].controlValues.loopStart = 5000
        /\ engines[calls[i].slot].controlValues.loopEnd = 2000
        /\ calls[i].args.loopStart = 2000
        /\ calls[i].args.loopEnd = 5000

(* C9: config sets of one slot arriving within 50 ms of each other, an     *)
(* engine instance being loaded, result in a single configure call.        *)
C9_ConfigSetsCoalesced ==
    (mBurst.on /\ mBurst.n >= 2) => mBurst.calls <= 1

\* the number-typed keys of controlValues and configValues
C10_NumericKeys ==
    {"volume", "pan", "semitones", "rate", "tonalityHz", "formantSemitones",
     "formantBaseHz", "loopStart", "loopEnd", "blockMs", "overlap"}

(* C10: applyIncomingSet on a numeric control or config key with a value   *)
(* that does not coerce to a finite number changes no control or config    *)
(* value of the slot and issues no call at all.                            *)
C10_NonFiniteIsNoOp ==
    [][ ( /\ opsDone' = opsDone + 1
          /\ lastOp'.name = "applyIncomingSet"
          /\ lastOp'.key \in C10_NumericKeys
          /\ ~IsFinite(IF lastOp'.value.t = "number" THEN lastOp'.value
                       ELSE Number(lastOp'.value)) )
        => (engines' = engines /\ calls' = << >>) ]_vars

C10_Witness ==
    /\ lastOp.name = "applyIncomingSet"
    /\ lastOp.key = "loopEnd"
    /\ lastOp.value = Str("abc")
    /\ SetEngine.stretch # 0
    /\ SetEngine.controlValues.loopEnd = 8000
    /\ calls = << >>

\* the keys applyIncomingSet is documented to accept
C11_DocumentedKeys == ControlKeys \cup ConfigKeys \cup {"volumePercent", "tone"}

(* C11: applyIncomingSet with a key that is no control key, config key or  *)
(* alias, names every object inherits included, changes no stored value of *)
(* the slot and issues no schedule or configure call.                      *)
C11_UnknownKeysIgnored ==
    [][ ( /\ opsDone' = opsDone + 1
          /\ lastOp'.name = "applyIncomingSet"
          /\ lastOp'.key \notin C11_DocumentedKeys )
        => ( /\ engines' = engines
             /\ \A i \in 1..Len(calls') : calls'[i].op \notin {"schedule", "configure"} ) ]_vars

\* the engine instances created so far for a slot
C12_Instances(slot) ==
    {i \in 1..Len(mLoads) : mLoads[i].slot = slot /\ mLoads[i].pc \in {"adding", "done", "threw"}}

(* C12: at most one engine instance is connected to a slot's output, and   *)
(* every instance the slot does not reference has been stopped and         *)
(* disconnected, also when loads of the slot overlap.                      *)
C12_SingleActiveGeneration ==
    \A slot \in Slots :
        /\ Cardinality({i \in C12_Instances(slot) : mLoads[i].conn}) <= 1
        /\ \A i \in C12_Instances(slot) :
              i # engines[slot].stretch => (mLoads[i].stopped /\ ~mLoads[i].conn)

(* C13: a set message whose engine tag names a slot this page does not run *)
(* changes no control or config value of any engine of the page and issues *)
(* no schedule or configure call.                                          *)
C13_ForeignTagFiltered ==
    [][ ( /\ opsDone' = opsDone + 1
          /\ lastOp'.name = "applyIncomingSet"
          /\ lastOp'.tag.t = "string"
          /\ lastOp'.tag.s \notin Slots )
        => ( /\ engines' = engines
             /\ \A i \in 1..Len(calls') : calls'[i].op \notin {"schedule", "configure"} ) ]_vars

(* C14: every schedule call caused by a control mutation (a set message, a *)
(* UI input, a reset button, the play/stop toggle) carries outputTime =    *)
(* current audio time + 100 ms.                                            *)
C14_ScheduleLeadTime ==
    lastOp.name \in {"applyIncomingSet", "oninput", "reset", "playstop"} =>
        \A i \in 1..Len(calls) : calls[i].op = "schedule" => calls[i].args.outputTime = 100

(* C15: in the multi-engine client the reconnect scheduled after the k-th  *)
(* consecutive close without an open is min(8000, 250 * 2^(k-1)) ms away.  *)
C15_MultiDelayFollowsBackoff ==
    mLastSched.k > 0 =>
        mLastSched.delay = Min(8000, 250 * Pow2(Min(mLastSched.k - 1, 6)))

(* C16: no reconnect timer of the single-engine client is pending while a  *)
(* socket of the client is OPEN or CONNECTING (reconnectTimer holds the    *)
(* one timer there can be).                                                *)
C16_NoTimerWhileConnected ==
    reconnectTimer # 0 => \A s \in 1..Len(sockets) : ~Live(s)

\* the edges of the connection lifecycle
C17_Edges ==
    {<<"disconnected", "connecting">>, <<"connecting", "connected">>,
     <<"connected", "disconnected">>, <<"disconnected", "reconnecting">>,
     <<"reconnecting", "connecting">>, <<"connecting", "disconnected">>}

(* C17: the status of the single-engine client only changes along the      *)
(* edges of the lifecycle.  A close sets 'disconnected' and then, when it  *)
(* arms the timer, 'reconnecting': both changes are edges.                 *)
C17_StatusFollowsLifecycle ==
    [][ IF failures' = failures + 1
        THEN status = "disconnected" \/ <<status, "disconnected">> \in C17_Edges
        ELSE status' # status => <<status, status'>> \in C17_Edges ]_vars

\* the documented range of a stored numeric key, in thousandths (rate's
\* lower bound 0.00001 is below one thousandth, so any stored rate >= 1
\* thousandth is above it and 0 is below it)
C19_Lo(key, e) ==
    CASE key = "rate" -> 1
      [] key = "tonalityHz" -> 20000
      [] key = "formantSemitones" -> -48000
      [] key = "formantBaseHz" -> 20000
      [] key = "blockMs" -> 10000
      [] key = "overlap" -> 1000
      [] OTHER -> 0
C19_Hi(key, e) ==
    CASE key = "rate" -> 2000
      [] key = "tonalityHz" -> 22050000
      [] key = "formantSemitones" -> 48000
      [] key = "formantBaseHz" -> 2000000
      [] key = "blockMs" -> 500000
      [] key = "overlap" -> 8000
      [] OTHER -> e.audioDuration
C19_RangedKeys ==
    {"rate", "tonalityHz", "formantSemitones", "formantBaseHz", "loopStart", "loopEnd",
     "blockMs", "overlap"}
C19_StoredOf(key, e) ==
    IF key \in ConfigKeys THEN e.configValues[key] ELSE e.controlValues[key]

(* C19: after applyIncomingSet with a finite value on rate, tonalityHz,    *)
(* formantSemitones, formantBaseHz, loopStart, loopEnd, blockMs or overlap *)
(* the value stored for that key lies in the key's documented range.       *)
C19_StoredValuesInRange ==
    ( /\ lastOp.name = "applyIncomingSet"
      /\ lastOp.key \in C19_RangedKeys
      /\ SetIsFinite )
    => /\ C19_Lo(lastOp.key, SetEngine) <= C19_StoredOf(lastOp.key, SetEngine)
       /\ C19_StoredOf(lastOp.key, SetEngine) <= C19_Hi(lastOp.key, SetEngine)

(* C20: every value handed to the audio engine is in its documented range: *)
(* a schedule call has rate in [0.00001, 2], semitones and                 *)
(* formantSemitones in [-48, 48], tonalityHz in [20, 22050], formantBaseHz *)
(* in [20, 2000]; a configure call has blockMs in [10, 500] and overlap in *)
(* [1, 8]; the gain ramp targets a volume in [0, 1] and the two pan ramps  *)
(* target (1 - pan) / 2 and (1 + pan) / 2 for one pan in [-1, 1].          *)
C20_EngineValuesInRange ==
    /\ \A i \in 1..Len(calls) :
        LET a == calls[i].args
        IN  /\ calls[i].op = "schedule" =>
                /\ 1 <= a.rate /\ a.rate <= 200000
                /\ -48000 <= a.semitones /\ a.semitones <= 48000
                /\ -48000 <= a.formantSemitones /\ a.formantSemitones <= 48000
                /\ 20000 <= a.tonalityHz /\ a.tonalityHz <= 22050000
                /\ 20000 <= a.formantBaseHz /\ a.formantBaseHz <= 2000000
            /\ calls[i].op = "configure" =>
                /\ 10000 <= a.blockMs /\ a.blockMs <= 500000
                /\ 1000 <= a.overlap /\ a.overlap <= 8000
            /\ calls[i].op = "ramp" => (0 <= a.value /\ a.value <= 1000)
    /\ \A i, j \in 1..Len(calls) :
        ( /\ calls[i].op = "ramp" /\ calls[i].args.node = "panLeftGain"
          /\ calls[j].op = "ramp" /\ calls[j].args.node = "panRightGain"
          /\ calls[i].slot = calls[j].slot )
        => calls[i].args.value + calls[j].args.value = 1000

C20_Witness ==
    \E i \in 1..Len(calls) :
        /\ calls[i].op = "schedule"
        /\ engines[calls[i].slot].controlValues.rate = 5000
        /\ calls[i].args.rate = 200000
        /\ engines[calls[i].slot].controlValues.tonalityHz = 10000
        /\ calls[i].args.tonalityHz = 20000

\* the connection of a client is closed: the socket it created last is CLOSED
C18_Closed == sockets[Len(sockets)] = "CLOSED"
C18_MClosed == mSockets[Len(mSockets)] = "CLOSED"

(* C18: automatic recovery in both clients.  While the socket a client     *)
(* created last is closed, a reconnect timer is pending; and once the n-th *)
(* socket of a client is closed, a further socket is eventually created    *)
(* (timers firing once due, no user action needed).                        *)
C18_AutomaticRecovery ==
    /\ [](C18_Closed => reconnectTimer # 0)
    /\ [](C18_MClosed => mTimers > 0)
    /\ \A n \in 1..(MaxRecoverSockets - 1) :
          (Len(sockets) = n /\ C18_Closed) ~> (Len(sockets) > n)
    /\ \A n \in 1..(MaxRecoverSockets - 1) :
          (Len(mSockets) = n /\ C18_MClosed) ~> (Len(mSockets) > n)

C18_Witness ==
    /\ Len(sockets) = 2 /\ sockets[1] = "CLOSED" /\ sockets[2] = "CONNECTING"
    /\ reconnectTimer = 0 /\ ws = 2
    /\ Len(mSockets) = 2 /\ mSockets[1] = "CLOSED" /\ mSockets[2] = "CONNECTING"
    /\ mTimers = 0

-----------------------------------------------------------------------------
(* Claims about the hub.                                                   *)

(* C21: the controller whose identity the table maps to slot "A" is        *)
(* assigned slot "A" whenever it is attached, in every order of            *)
(* attachment.                                                             *)
C21_MappedControllerGetsItsSlot ==
    \A p \in Ports :
        (registry[p] # NoController /\ registry[p].deviceId \in DOMAIN DeviceIdToEngine)
        => registry[p].slot = DeviceIdToEngine[registry[p].deviceId]

(* C22: first claimant wins.  Each slot is owned by at most one attached   *)
(* controller and each attached controller owns one slot or none; an      *)
(* attached controller keeps the slot it has for as long as it *)
(* is attached, whoever attaches later; and a set read from a controller   *)
(* without a slot is not routed.                                           *)
C22_FirstClaimantWins ==
    /\ [](\A slot \in HubSlots : Cardinality(OwnerPorts(registry, slot)) <= 1)
    /\ [](\A p \in Attached : registry[p].slot \in HubSlots \cup {"none"})
    /\ [][\A p \in Ports :
            (registry[p] # NoController /\ registry'[p] # NoController)
            => registry'[p] = registry[p]]_vars
    /\ [](hubLast.op = "set" => registry[hubLast.port].slot \in HubSlots)
    /\ []((hubLast.op = "unrouted") => hubLast.msg = << >>)

C22_Witness ==
    /\ hubLast.op = "unrouted"
    /\ registry[hubLast.port].deviceId = "BKTP_CTL_01"
    /\ registry[hubLast.port].slot = "none"
    /\ \E q \in Attached : registry[q].deviceId = "ctrl-01" /\ registry[q].slot = "A"

(* C23: detachment frees the slot.  In the state that follows a read/write *)
(* failure or stream closure on the port of a controller, the controller   *)
(* is out of the registry, its port is closed and the slot it owned has no *)
(* owner; and every controllerStatus snapshot reports a slot connected     *)
(* exactly when the registry holds an owner for it.                        *)
C23_DetachFreesSlot ==
    /\ [][ (hubLast'.op = "detach" /\ hubLast' # hubLast) =>
             /\ registry'[hubLast'.port] = NoController
             /\ hubLast'.port \notin openPorts'
             /\ registry[hubLast'.port].slot \in HubSlots
                   => SlotFree(registry', registry[hubLast'.port].slot) ]_vars
    /\ [](hubLast.op = "status" =>
             \A slot \in HubSlots :
                 hubLast.msg[1].engines[slot].connected
                     <=> (\E p \in Ports : registry[p] # NoController /\ registry[p].slot = slot))

\* slot A had an owner whose set was routed, the owner is detached, and the
\* snapshot reports A as not connected
C23_Witness ==
    /\ hubLast.op = "status"
    /\ lastUpdateTs["A"] >= 0
    /\ ~hubLast.msg[1].engines["A"].connected
    /\ hubLast.msg[1].engines["A"].deviceId = ""

(* C24: channel health is derived from recency alone.  In every emitted    *)
(* controllerStatus the channel of a slot is online exactly when a set was *)
(* accepted for it and the time since the last one is below the stale      *)
(* threshold, whether or not a controller is attached, and ageMs is that   *)
(* time.                                                                   *)
C24_HealthFromRecency ==
    hubLast.op = "status" =>
        \A slot \in HubSlots :
            LET ch == hubLast.msg[1].engines[slot].channel
            IN  /\ ch.online <=> ( /\ lastUpdateTs[slot] >= 0
                                   /\ hubNow - lastUpdateTs[slot] < StaleThreshold )
                /\ lastUpdateTs[slot] >= 0 => ch.ageMs = hubNow - lastUpdateTs[slot]

\* a controller is attached to slot A, its last set is as old as the
\* threshold, and the snapshot reports the channel offline
C24_Witness ==
    /\ hubLast.op = "status"
    /\ hubLast.msg[1].engines["A"].connected
    /\ lastUpdateTs["A"] >= 0
    /\ hubNow - lastUpdateTs["A"] = StaleThreshold
    /\ ~hubLast.msg[1].engines["A"].channel.online

(* C27: every set message the router forwards carries an engine tag that   *)
(* names an engine slot, the slot owned by the controller on the port the  *)
(* line was read from; a line that is not a set of a controller with a     *)
(* slot (a hello, an unparsable line, an unrecognised type) produces no    *)
(* message.                                                                *)
C27_SetCarriesOwnersSlot ==
    /\ hubLast.op = "set" =>
          /\ Len(hubLast.msg) = 1
          /\ hubLast.msg[1].type = "set"
          /\ hubLast.msg[1].engine \in HubSlots
          /\ registry[hubLast.port] # NoController
          /\ hubLast.msg[1].engine = registry[hubLast.port].slot
    /\ hubLast.op \in {"hello", "dropped", "unrouted"} => hubLast.msg = << >>

\* a set of the controller that owns slot B is forwarded
C27_Witness ==
    /\ hubLast.op = "set"
    /\ hubLast.msg[1].engine = "B"
    /\ registry[hubLast.port].slot = "B"

(* C28: probing is fail-soft.  A probe that ends with no reply, a          *)
(* malformed reply or a hello of another device type changes nothing in    *)
(* the registry; afterwards the port is closed, not attached and not being *)
(* probed, so the next scan probes it again; at all times the open ports   *)
(* are those being probed and those of attached controllers, and only      *)
(* controllers are attached.                                               *)
C28_ProbingFailSoft ==
    /\ [][ (hubLast'.op = "probeFailed" /\ hubLast' # hubLast) =>
             /\ registry' = registry
             /\ hubLast'.port \notin openPorts'
             /\ hubLast'.port \notin probing'
             /\ registry'[hubLast'.port] = NoController ]_vars
    /\ [](openPorts = probing \cup Attached)
    /\ [](\A p \in Attached : registry[p].deviceId \in Controllers)

\* the probe of a port that answers with a line that is not JSON has failed
\* while a controller is attached on the other port
C28_Witness ==
    /\ hubLast.op = "probeFailed"
    /\ plugged[hubLast.port] = "garbage"
    /\ Attached # {}
    /\ openPorts = Attached

-----------------------------------------------------------------------------
(* Claims about the embedded controller.                                   *)

RECURSIVE C29_Hellos(_)
C29_Hellos(lines) ==
    IF lines = << >> THEN 0 ELSE Head(lines).hellos + C29_Hellos(Tail(lines))

\* the hello lines written are the one of setup() and those of the input lines
C29_HellosAccounted ==
    /\ \A i \in 1..Len(fwTx) : fwTx[i] = "hello"
    /\ Len(fwTx) = (IF fwBooted THEN 1 ELSE 0) + C29_Hellos(fwLines)

(* C29, as stated: every complete input line that contains "whoareyou"     *)
(* produces exactly one hello line, no other input line produces one, and  *)
(* one hello is written at boot.                                           *)
C29_AnswersEveryProbe ==
    /\ C29_HellosAccounted
    /\ \A i \in 1..Len(fwLines) :
          fwLines[i].hellos = IF isWhoAreYouMessage(fwLines[i].raw) THEN 1 ELSE 0

\* the characters of the first k pieces of a line
RECURSIVE C29_Chars(_, _)
C29_Chars(toks, k) == IF k = 0 THEN 0 ELSE PieceLen(toks[k]) + C29_Chars(toks, k - 1)

\* the word is among the first 256 characters of the line, carriage
\* returns left out
C29_ProbeInReach(raw) ==
    LET t == SelectSeq(raw, LAMBDA c : c # "CR")
    IN  \E i \in 1..(Len(t) - 1) :
            /\ t[i] = "who" /\ t[i + 1] = "areyou"
            /\ C29_Chars(t, i + 1) <= LineBufferCap

(* C29, amended: an input line produces exactly one hello line if          *)
(* "whoareyou" is among its first 256 characters, carriage returns left    *)
(* out, and none otherwise; one hello is written at boot.                  *)
C29_AnswersProbesInReach ==
    /\ C29_HellosAccounted
    /\ \A i \in 1..Len(fwLines) :
          fwLines[i].hellos = IF C29_ProbeInReach(fwLines[i].raw) THEN 1 ELSE 0

\* the probe word arrives after 250 other characters of the same line, the
\* line is complete, and only the hello of boot has been written
C29_Witness ==
    /\ Len(fwLines) = 1
    /\ fwLines[1].raw = <<"pad", "who", "areyou">>
    /\ fwLines[1].hellos = 0
    /\ fwTx = <<"hello">>

-----------------------------------------------------------------------------
(* Claims about the multi-engine client opened for slots A and B.          *)

\* loadDefaultAudioIntoAllEngines has settled: no default load is under way
\* (the load of the next engine starts in the step that ends the one before)
C30_AutoloadSettled ==
    \A i \in 1..Len(mLoads) :
        mLoads[i].kind = "default" => mLoads[i].pc \in {"done", "threw", "failed"}

(* C30: the page being opened for slots A and B, once the loading of the   *)
(* default audio has settled with no fetch and no decode having failed,    *)
(* each of the two engines holds an engine instance whose default audio    *)
(* went through configure and schedule.                                    *)
C30_DefaultAudioInEveryEngine ==
    ( /\ C30_AutoloadSettled
      /\ \A i \in 1..Len(mLoads) : mLoads[i].pc # "failed" )
    => \A slot \in Slots :
          /\ engines[slot].stretch # 0
          /\ \E i \in 1..Len(mLoads) :
                /\ mLoads[i].slot = slot /\ mLoads[i].kind = "default"
                /\ mLoads[i].pc \in {"done", "threw"}

-----------------------------------------------------------------------------
(* Claims about the fan-out server.                                        *)

\* what a connection has been given so far and what waits in its buffer
C25_Stream(c) == conns[c].got \o conns[c].queue
C25_InSeq(m, q) == \E i \in 1..Len(q) : q[i] = m

(* C25: ordered fan-out.  What a connection has received and what waits in *)
(* its buffer is serverVersion followed by the messages broadcast since it *)
(* connected, each once and in production order, none from before it       *)
(* connected; while the connection is open none of them is missing; and a  *)
(* message waiting for a client that keeps reading is eventually received  *)
(* unless the connection ends first.                                       *)
C25_OrderedFanOut ==
    /\ [](\A c \in 1..Len(conns) :
            /\ \A i \in 1..Len(C25_Stream(c)) :
                  C25_Stream(c)[i] = IF i = 1 THEN ServerVersionMsg
                                     ELSE produced[conns[c].joined + i - 1]
            /\ conns[c].state = "open" =>
                  Len(C25_Stream(c)) = 1 + Broadcasted - conns[c].joined)
    /\ \A c \in 1..MaxConns : \A m \in 1..MaxMsgs :
          ( /\ c <= Len(conns) /\ conns[c].state = "open" /\ ~conns[c].slow
            /\ C25_InSeq(m, conns[c].queue) )
          ~> ( /\ c <= Len(conns)
               /\ (C25_InSeq(m, conns[c].got) \/ conns[c].state # "open") )

\* the first client has received messages 1 and 2, the second connected
\* after message 1 was broadcast and has received message 2 only
C25_Witness ==
    /\ Len(conns) = 2
    /\ conns[1].state = "open" /\ conns[1].got = <<ServerVersionMsg, 1, 2>>
    /\ conns[2].state = "open" /\ conns[2].joined = 1
    /\ conns[2].got = <<ServerVersionMsg, 2>>

(* C26: slow-client isolation.  No outbound buffer ever holds more than    *)
(* its capacity: a broadcast closes the connections whose buffer is full   *)
(* and reaches all the others; and however long a slow client stalls,      *)
(* every message produced after a client that keeps reading has connected  *)
(* is eventually received by that client, unless its connection ends.      *)
C26_SlowClientIsolated ==
    /\ [](\A c \in 1..Len(conns) : Len(conns[c].queue) <= MaxBuffer)
    /\ [][ (toSend # << >> /\ toSend' = Tail(toSend)) =>
             \A c \in OpenConns :
                 IF Len(conns[c].queue) >= MaxBuffer
                 THEN conns'[c].state = "dropped"
                 ELSE /\ conns'[c].state = "open"
                      /\ conns'[c].queue = Append(conns[c].queue, Head(toSend)) ]_vars
    /\ \A c \in 1..MaxConns : \A m \in 1..MaxMsgs :
          ( /\ c <= Len(conns) /\ conns[c].state = "open" /\ ~conns[c].slow
            /\ conns[c].joined < m /\ Len(produced) >= m )
          ~> ( /\ c <= Len(conns)
               /\ (C25_InSeq(m, conns[c].got) \/ conns[c].state # "open") )

\* the slow client, connected first, never read and was dropped; the other
\* client is open and has received every message
C26_Witness ==
    /\ Len(conns) = 2
    /\ conns[1].slow /\ conns[1].state = "dropped" /\ conns[1].got = << >>
    /\ ~conns[2].slow /\ conns[2].state = "open"
    /\ conns[2].got = <<ServerVersionMsg, 1, 2, 3>>

-----------------------------------------------------------------------------
(* C31: engine slots are independent in the multi-engine client.  A set    *)
(* message tagged with one slot of the page leaves the other slot's engine *)
(* (its control values, config values, instance and duration) as it was    *)
(* and makes no call (ramp, schedule, configure) on the other slot.        *)
C31_Other(slot) == IF slot = "A" THEN "B" ELSE "A"

C31_SlotsIndependent ==
    [][(opsDone' = opsDone + 1 /\ lastOp'.name = "applyIncomingSet"
            /\ lastOp'.tag.t = "string" /\ lastOp'.tag.s \in Slots
            /\ C31_Other(lastOp'.tag.s) \in Slots)
        => LET other == C31_Other(lastOp'.tag.s)
           IN  /\ engines'[other] = engines[other]
               /\ \A k \in 1..Len(calls') : calls'[k].slot # other]_vars

\* a set tagged A was applied and scheduled on A's instance while B has an
\* instance of its own
C31_Witness ==
    /\ lastOp.name = "applyIncomingSet" /\ lastOp.tag = Str("A")
    /\ CountCalls(calls, "schedule") = 1
    /\ "B" \in Slots /\ engines["B"].stretch # 0

-----------------------------------------------------------------------------
(* C33: once an engine instance has been stopped and disconnected because  *)
(* a replacement is being loaded, no handler issues a schedule or a         *)
(* configure call to that instance any more.                               *)
C33_Disposed(inst) == inst # 0 /\ mLoads[inst].stopped /\ ~mLoads[inst].conn

C33_NoCallOnDisposedInstance ==
    \A k \in 1..Len(calls) :
        calls[k].op \in {"schedule", "configure"} => ~C33_Disposed(calls[k].inst)

-----------------------------------------------------------------------------
(* C40: default-audio loading is independent per engine.  When the fetch   *)
(* or the decode of engine A's default audio has failed and no load is     *)
(* under way any more, engine B's default audio has been loaded.           *)
C40_NoLoadUnderWay ==
    \A i \in 1..Len(mLoads) : mLoads[i].pc \in {"failed", "done", "threw"}

C40_DefaultOfAFailed ==
    \E i \in 1..Len(mLoads) :
        mLoads[i].slot = "A" /\ mLoads[i].kind = "default" /\ mLoads[i].pc = "failed"

C40_DefaultLoadsIndependent ==
    ("B" \in Slots /\ C40_DefaultOfAFailed /\ C40_NoLoadUnderWay)
        => \E j \in 1..Len(mLoads) :
              /\ mLoads[j].slot = "B" /\ mLoads[j].kind = "default"
              /\ mLoads[j].pc \in {"done", "threw"}

-----------------------------------------------------------------------------
(* C36: a failed upload leaves the slot as it was.  When the reading or    *)
(* the decoding of an uploaded file has failed (no other load of the slot  *)
(* was under way when the file was chosen, none started since), the slot   *)
(* references the instance it referenced before, that instance is stopped  *)
(* only if it was stopped before, the slot's file name is the one it had   *)
(* before, and the processing indicator is off.                            *)
C36_FailedUploads ==
    {i \in 1..Len(mLoads) :
        /\ mLoads[i].kind = "upload" /\ mLoads[i].pc = "failed"
        /\ mLoads[i].was.quiet
        /\ \A j \in (i + 1)..Len(mLoads) : mLoads[j].slot # mLoads[i].slot}

C36_FailedUploadLeavesSlot ==
    \A i \in C36_FailedUploads :
        LET e == engines[mLoads[i].slot]
            was == mLoads[i].was
        IN  /\ e.stretch = was.stretch
            /\ e.stretch # 0 => (mLoads[e.stretch].stopped <=> was.stopped)
            /\ e.currentFileName = was.file
            /\ ~e.processing

-----------------------------------------------------------------------------
(* C34: the controller's volume is interpreted consistently end to end.    *)
(* After a set with key volume and an integer value N in 1..100, as the    *)
(* controller writes it, the engine's stored volume is N/100.              *)
C34_N == lastOp.value.n \div 1000

C34_VolumeIsPercent ==
    (/\ lastOp.name = "applyIncomingSet" /\ lastOp.key = "volume"
     /\ lastOp.value.t = "number" /\ lastOp.value.n = 1000 * C34_N
     /\ C34_N \in 1..100)
        => engines[lastOp.slot].controlValues.volume = 10 * C34_N

-----------------------------------------------------------------------------
(* C35: the backoff delay is honoured in the single-engine client.  While  *)
(* a reconnect is announced with delay d, a new connection attempt starts  *)
(* only once d ms have gone by since the announcement.                     *)
C35_BackoffHonoured ==
    [][(Len(sockets') > Len(sockets) /\ reconnectTimer # 0)
            => waited >= reconnectTimer]_vars

-----------------------------------------------------------------------------
(* C32: in the single-engine client every schedule call, from a control    *)
(* change and from a seek of the playback slider, carries loop bounds with *)
(* 0 <= loopStart <= loopEnd <= duration.                                  *)
C32_ScheduledLoopBoundsOrdered ==
    lastSchedule.inst # 0
        => /\ 0 <= lastSchedule.args.loopStart
           /\ lastSchedule.args.loopStart <= lastSchedule.args.loopEnd
           /\ lastSchedule.args.loopEnd <= lastSchedule.duration

(* C37: two consecutive rate set lines the controller writes never carry   *)
(* the same value on the wire.                                              *)
C37_ConsecutiveRateLinesDiffer ==
    Len(rateTx) = 2 => rateTx[1] # rateTx[2]

(* C39: the guard of the volume display is right whatever the 32-bit clock *)
(* does: at every pass of loop() it holds rate texts back exactly while    *)
(* less than volumeDisplayDurationMs have gone by since the volume was     *)
(* shown, and no rate update is still held back once that time is over.    *)
C39_GuardHoldsAcrossWrap ==
    /\ (ctlClock.millis < ctl.volumeDisplayUntilMs)
          <=> IntervalRuns(ctlHist, ctlClock.uptime)
    /\ ctl.pendingRateUpdate => IntervalRuns(ctlHist, ctlClock.uptime)

(* C38: the volume wins the display: no rate text is written while the     *)
(* volume's interval runs, and at the first pass of loop() after it the    *)
(* display shows the last rate the sweep handed over in the meantime.      *)
C38_VolumeWins ==
    /\ (ctlHist.rateWrittenAt # -1 /\ ctlHist.rateWrittenAt >= ctlHist.volShownAt)
          => ctlHist.rateWrittenAt - ctlHist.volShownAt >= Ticks(volumeDisplayDurationMs)
    /\ (ctlHist.justEnded /\ ctlHist.lateRate # -1)
          => ctl.lastRateDisplayCode = rateToDisplay(ctlHist.lateRate)

=============================================================================
